---- MODULE Spec2Model ----
(***************************************************************************)
(* A model of AckerJS: the HTTP fetch wrappers and buildURL, the           *)
(* custom-element component helper, the DOM helpers, the error-handling    *)
(* convention of the exported operations and the pure formatting           *)
(* functions.                                                              *)
(*                                                                         *)
(* JavaScript strings that the code inspects character by character (URLs, *)
(* tag names, the inputs of the format functions) are sequences of         *)
(* one-character strings.  JavaScript objects are functions from keys to   *)
(* values; an object spread {...a, ...b} is Merge(a, b).                   *)
(***************************************************************************)
EXTENDS Integers, Sequences, FiniteSets, TLC

VARIABLES
    \* ---- HTTP ----
    client,         \* the createFetch client: [baseURL, defaultOptions]
    defaultsObj,    \* the current contents of the object passed as defaultOptions
    pc,             \* per caller: idle | fetching | handled | errbody | body |
                    \* relaying | resolved | rejected
    args,           \* per caller: the arguments of the call in progress
    callerOptions,  \* per caller: the current contents of the caller's options object
    request,        \* per caller: the request handed to the platform fetch
    furl,           \* per caller: fetchJSON's url parameter, kept for its catch block
    response,       \* per caller: the response the platform fetch resolved with, or
                    \* the error it rejected with
    inner,          \* per caller: what fetchJSON's own promise settled with
    wrappers,       \* per caller: async wrappers whose promise has still to follow
    result,         \* per caller: what the promise returned to the caller settled with
    fetchCount,     \* per caller: platform fetch invocations made by the current call
    settleCount,    \* per caller: times the current call's promise was settled
    logged,         \* per caller: console.error lines written by the current call
    ncalls,         \* calls started so far
    \* ---- component ----
    registry,       \* customElements: tag name -> definition or NoDef
    elems,          \* per element: [tag, upgraded, connected, attrs, content, dirty];
                    \* dirty: an attribute that is not observed changed since the last render
    compThrew,      \* whether a component() call let an exception escape
    compLog,        \* the console line written by the last component() call
    \* ---- exported operations and their error handling ----
    inflight,       \* the calls of asynchronous helpers whose promise is still pending
    opOutcome,      \* what a caller observed last: the operation, how it went, the outcome
    console,        \* the module tags of the console lines the operations wrote
    \* ---- format ----
    fmtIn,          \* the input of the format function
    fmtFn,          \* the format function applied last
    fmtOut,         \* its output
    \* ---- DOM helpers ----
    dom,            \* the document: [inDocument, nodes]
    domCall,        \* the last DOM helper called, with its arguments
    domOut,         \* what that call did: returned or threw, its value, its console line
    domCalls,       \* DOM helper calls made so far
    \* ---- buildURL ----
    urlIn,          \* the arguments of buildURL: [baseURL, params]
    urlOut          \* what buildURL returned or threw

httpVars == <<client, defaultsObj, pc, args, callerOptions, request, furl, response,
              inner, wrappers, result, fetchCount, settleCount, logged, ncalls>>
compVars == <<registry, elems, compThrew, compLog>>
opVars   == <<inflight, opOutcome, console>>
fmtVars  == <<fmtIn, fmtFn, fmtOut>>
domVars  == <<dom, domCall, domOut, domCalls>>
urlVars  == <<urlIn, urlOut>>
vars     == <<httpVars, compVars, opVars, fmtVars, domVars, urlVars>>

(***************************************************************************)
(* JavaScript values                                                       *)
(***************************************************************************)
Undefined == [undefined |-> TRUE]
EmptyObject == <<>>

\* {...a, ...b}: own keys of a, then those of b, the later value winning.
Merge(a, b) ==
    [k \in (DOMAIN a) \cup (DOMAIN b) |-> IF k \in DOMAIN b THEN b[k] ELSE a[k]]

\* ...o inside an object literal: spreading undefined adds nothing.
Spread(o) == IF o = Undefined THEN EmptyObject ELSE o

\* o?.headers
HeadersOf(o) ==
    IF o = Undefined THEN Undefined
    ELSE IF "headers" \in DOMAIN o THEN o.headers ELSE Undefined

\* String.prototype.startsWith / endsWith on character sequences.
StartsWith(s, p) == Len(s) >= Len(p) /\ SubSeq(s, 1, Len(p)) = p
EndsWith(s, p) == Len(s) >= Len(p) /\ SubSeq(s, Len(s) - Len(p) + 1, Len(s)) = p

\* str.includes(ch).
Includes(s, ch) == \E i \in 1..Len(s) : s[i] = ch
\* str.indexOf(ch) + 1.
IndexOf(str, ch) ==
    IF Includes(str, ch)
    THEN CHOOSE i \in 1..Len(str) : str[i] = ch /\ \A j \in 1..(i - 1) : str[j] # ch
    ELSE 0

\* The characters the model's strings are made of.
LowerAlphabet == <<"a", "b", "c", "d", "e", "f", "g", "h", "i", "j", "k", "l", "m",
                   "n", "o", "p", "q", "r", "s", "t", "u", "v", "w", "x", "y", "z">>
UpperAlphabet == <<"A", "B", "C", "D", "E", "F", "G", "H", "I", "J", "K", "L", "M",
                   "N", "O", "P", "Q", "R", "S", "T", "U", "V", "W", "X", "Y", "Z">>
LowerLetters == {LowerAlphabet[i] : i \in 1..26}
UpperLetters == {UpperAlphabet[i] : i \in 1..26}
Digits == {"0", "1", "2", "3", "4", "5", "6", "7", "8", "9"}
Whitespace == {" ", "\t"}

\* JSON.stringify(data): the serialised text of data, not data itself.
JSONStringify(data) == <<"json", data>>

\* A value JSON.stringify throws on: the object a with a.self = a.
Cyclic == "cyclic"
\* The TypeError of JSON.stringify for that value; the platform chooses the
\* message (the first is that of V8, the second that of SpiderMonkey).
CycleMessages ==
    {<<"Converting circular structure to JSON\n    --> starting at object with constructor 'Object'\n    --- property 'self' closes the circle">>,
     <<"cyclic object value">>}
StringifyError(message) ==
    [class |-> "TypeError", name |-> "TypeError", message |-> message]

(***************************************************************************)
(* HTTP: src/unnamed/part_002                                              *)
(***************************************************************************)
Callers == {"A", "B"}
MaxCalls == 2

ContentTypeJSON == "Content-Type" :> "application/json"

HTTPError(message, status, statusText, url) ==
    [class |-> "HTTPError", name |-> "HTTPError", message |-> message,
     status |-> status, statusText |-> statusText, url |-> url]

\* new Error(message)
GenericError(message) == [class |-> "Error", name |-> "Error", message |-> message]

\* error instanceof HTTPError
InstanceOfHTTPError(error) == error.class = "HTTPError"

\* response.json() resolves for a body that is valid JSON and rejects otherwise;
\* response.text() resolves unless the body cannot be read at all.
JSONReadable(body) == body.kind \in {"object", "null"}
TextReadable(body) == body.kind # "unreadable"

\* contentType && contentType.includes('application/json')
IsJSONType(contentType) ==
    contentType \in {"application/json", "application/json; charset=utf-8"}

\* The lookup order errorData.error || errorData.message.
errorMessageErrorFirst(r) ==
    LET default == <<"HTTP ", r.status, ": ", r.statusText>>
    IN  IF IsJSONType(r.contentType)
        THEN IF r.body.kind = "object"
             THEN IF r.body.error # <<>> THEN r.body.error
                  ELSE IF r.body.message # <<>> THEN r.body.message
                  ELSE default
             ELSE default
        ELSE IF TextReadable(r.body) /\ r.body.text # <<>> THEN r.body.text
             ELSE default

\* handleResponse, lines 24-40: the message of the HTTPError for a non-ok response.
\* A body read that throws, or a property read of a null body, is caught and
\* leaves the default message.
errorMessage(r) ==
    LET default == <<"HTTP ", r.status, ": ", r.statusText>>
    IN  IF IsJSONType(r.contentType)
        THEN IF r.body.kind = "object"
             THEN IF r.body.message # <<>> THEN r.body.message
                  ELSE IF r.body.error # <<>> THEN r.body.error
                  ELSE default
             ELSE default
        ELSE IF TextReadable(r.body) /\ r.body.text # <<>> THEN r.body.text
             ELSE default

\* handleResponse, line 41: the error thrown for a non-ok response.
handleResponse(r) == HTTPError(errorMessage(r), r.status, r.statusText, r.url)

\* A catch block without the instanceof test: every error is wrapped.
fetchJSONCatchWrapsAll(url, error) ==
    GenericError(<<"Failed to fetch from ", url, ": ", error.message>>)

\* fetchJSON, lines 69-75: what the catch block throws for a caught error.
fetchJSONCatch(url, error) ==
    IF InstanceOfHTTPError(error) THEN error
    ELSE GenericError(<<"Failed to fetch from ", url, ": ", error.message>>)

\* fetchJSON, line 73: the catch block logs everything but an HTTPError.
fetchJSONLogs(error) == IF InstanceOfHTTPError(error) THEN 0 ELSE 1

\* fetchJSON, lines 55-61: the init object handed to the platform fetch.
fetchInit(options) ==
    Merge(Spread(options),
          [headers |-> Merge(ContentTypeJSON, Spread(HeadersOf(options)))])

\* postJSON with the caller's options spread last, so that they win.
postJSONOptionsLast(url, data, options) ==
    [url |-> url,
     options |-> Merge(Merge([method |-> "POST", body |-> JSONStringify(data)],
                             Spread(options)),
                       [headers |-> Merge(ContentTypeJSON, Spread(HeadersOf(options)))])]

\* postJSON, lines 87-97: the (url, options) handed to fetchJSON.
postJSON(url, data, options) ==
    [url |-> url,
     options |-> Merge(Merge(Spread(options),
                             [method |-> "POST", body |-> JSONStringify(data)]),
                       [headers |-> Merge(ContentTypeJSON, Spread(HeadersOf(options)))])]

\* putJSON, lines 108-118.
putJSON(url, data, options) ==
    [url |-> url,
     options |-> Merge(Merge(Spread(options),
                             [method |-> "PUT", body |-> JSONStringify(data)]),
                       [headers |-> Merge(ContentTypeJSON, Spread(HeadersOf(options)))])]

\* patchJSON, lines 129-139.
patchJSON(url, data, options) ==
    [url |-> url,
     options |-> Merge(Merge(Spread(options),
                             [method |-> "PATCH", body |-> JSONStringify(data)]),
                       [headers |-> Merge(ContentTypeJSON, Spread(HeadersOf(options)))])]

\* deleteJSON, get and the aliases, lines 149-213.
deleteJSON(url, options) ==
    [url |-> url, options |-> Merge(Spread(options), [method |-> "DELETE"])]
get(url, options) ==
    [url |-> url, options |-> Merge(Spread(options), [method |-> "GET"])]
post(url, data, options) == postJSON(url, data, options)
put(url, data, options) == putJSON(url, data, options)
patch(url, data, options) == patchJSON(url, data, options)
del(url, options) == deleteJSON(url, options)

\* createFetch, lines 226-233.
mergeURL(baseURL, url) ==
    IF StartsWith(url, <<"h","t","t","p",":","/","/">>)
       \/ StartsWith(url, <<"h","t","t","p","s",":","/","/">>)
    THEN url
    ELSE LET base == IF EndsWith(baseURL, <<"/">>)
                     THEN SubSeq(baseURL, 1, Len(baseURL) - 1) ELSE baseURL
             path == IF StartsWith(url, <<"/">>) THEN url ELSE <<"/">> \o url
         IN  base \o path

\* mergeOptions without its headers entry: the request's headers object
\* replaces the default one.
mergeOptionsShallow(defaultOptions, options) ==
    Merge(Spread(defaultOptions), Spread(options))

\* createFetch, lines 234-241.
mergeOptions(defaultOptions, options) ==
    Merge(Merge(Spread(defaultOptions), Spread(options)),
          [headers |-> Merge(Spread(HeadersOf(defaultOptions)),
                             Spread(HeadersOf(options)))])

\* mergeOptions written as Object.assign(defaultOptions, options).
defaultOptionsAssigned(defaultOptions, options) ==
    IF defaultOptions = Undefined THEN Undefined
    ELSE Merge(defaultOptions, Spread(options))

\* createFetch, lines 234-241: mergeOptions builds a new object and a new
\* headers object; the object passed as defaultOptions is as it was.
defaultOptionsAfter(defaultOptions, options) == defaultOptions

ModuleFns == {"fetchJSON", "get", "post", "put", "patch", "del",
              "postJSON", "putJSON", "patchJSON", "deleteJSON"}
ClientFns == {"api.get", "api.post", "api.put", "api.patch", "api.delete",
              "api.fetchJSON"}
BodyFns == {"post", "put", "patch", "postJSON", "putJSON", "patchJSON",
            "api.post", "api.put", "api.patch"}

\* The (url, options) a call hands to fetchJSON, by the function called.
FetchArgs(a, cl) ==
    LET u == IF a.fn \in ClientFns THEN mergeURL(cl.baseURL, a.url) ELSE a.url
        o == IF a.fn \in ClientFns THEN mergeOptions(cl.defaultOptions, a.options)
             ELSE a.options
    IN  CASE a.fn \in {"fetchJSON", "api.fetchJSON"} -> [url |-> u, options |-> o]
          [] a.fn \in {"get", "api.get"} -> get(u, o)
          [] a.fn \in {"post", "api.post"} -> post(u, a.data, o)
          [] a.fn \in {"put", "api.put"} -> put(u, a.data, o)
          [] a.fn \in {"patch", "api.patch"} -> patch(u, a.data, o)
          [] a.fn \in {"del", "api.delete"} -> del(u, o)
          [] a.fn = "postJSON" -> postJSON(u, a.data, o)
          [] a.fn = "putJSON" -> putJSON(u, a.data, o)
          [] a.fn = "patchJSON" -> patchJSON(u, a.data, o)
          [] a.fn = "deleteJSON" -> deleteJSON(u, o)

\* The request fetchJSON issues for a call: fetch(url, init).
IssuedRequest(a, cl) ==
    LET fa == FetchArgs(a, cl)
    IN  [url |-> fa.url, init |-> fetchInit(fa.options)]

(***************************************************************************)
(* HTTP: the inputs                                                        *)
(***************************************************************************)
RichOptions ==
    [method |-> "TRACE", body |-> <<"raw", "x">>,
     headers |-> ("X-Trace" :> "1"), mode |-> "cors"]
ContentTypeOptions == [headers |-> ("Content-Type" :> "text/plain")]
OptionsSet == {Undefined, RichOptions, ContentTypeOptions}

Urls == {<<"u">>, <<"/", "u">>, <<"/", "/", "u">>,
         <<"h","t","t","p",":","/","/","h">>,
         <<"h","t","t","p","s",":","/","/","h">>}
Datas == {"d1", "d2"}
NoData == "none"

DefaultOptions1 ==
    [method |-> "HEAD", mode |-> "same-origin",
     headers |-> ("Authorization" :> "t" @@ "X-Trace" :> "0")]
DefaultOptions2 ==
    [body |-> <<"raw", "y">>, cache |-> "no-store",
     headers |-> ("Content-Type" :> "text/xml")]
Clients == {[baseURL |-> <<"b", "/">>, defaultOptions |-> DefaultOptions1],
            [baseURL |-> <<"b">>, defaultOptions |-> Undefined],
            [baseURL |-> <<"b">>, defaultOptions |-> DefaultOptions2]}

AllCallArgs ==
    {a \in [fn : ModuleFns \cup ClientFns, url : Urls,
            data : Datas \cup {Cyclic, NoData}, options : OptionsSet] :
        (a.fn \in BodyFns) <=> (a.data # NoData)}
\* The calls of the two concurrent callers.
CallArgs ==
    {a \in AllCallArgs : a.url = <<"/", "u">> /\ a.data # "d2"
                          /\ a.options # ContentTypeOptions}
NoArgs == [fn |-> "none"]
NoRequest == [url |-> <<>>]
NoResponse == [status |-> 0]
\* The platform fetch rejected, or JSON.stringify threw before fetch was
\* reached: no response, and the error of the platform.
Failure(error) == [status |-> 0, error |-> error]
Pending == [state |-> "pending"]

ObjectBody(message, error) ==
    [kind |-> "object", text |-> <<"{...}">>, message |-> message,
     error |-> error, data |-> "D"]
NullBody == [kind |-> "null", text |-> <<"null">>]
TextBody(text) == [kind |-> "malformed", text |-> text]
UnreadableBody == [kind |-> "unreadable"]

\* What the platform may answer: status, headers and body, before the url.
ResponseShapes ==
    {[ok |-> TRUE, status |-> 200, statusText |-> "OK",
      contentType |-> "application/json", body |-> ObjectBody(<<>>, <<>>)],
     [ok |-> TRUE, status |-> 200, statusText |-> "OK",
      contentType |-> "application/json", body |-> TextBody(<<>>)],
     [ok |-> TRUE, status |-> 200, statusText |-> "OK",
      contentType |-> "text/html", body |-> TextBody(<<"<", "h", "t", "m", "l", ">">>)],
     [ok |-> TRUE, status |-> 204, statusText |-> "No Content",
      contentType |-> "none", body |-> TextBody(<<>>)],
     [ok |-> FALSE, status |-> 404, statusText |-> "Not Found",
      contentType |-> "application/json; charset=utf-8",
      body |-> ObjectBody(<<"gone">>, <<"E404">>)],
     [ok |-> FALSE, status |-> 404, statusText |-> "Not Found",
      contentType |-> "application/json", body |-> ObjectBody(<<>>, <<"E404">>)],
     [ok |-> FALSE, status |-> 404, statusText |-> "Not Found",
      contentType |-> "application/json", body |-> ObjectBody(<<>>, <<>>)],
     [ok |-> FALSE, status |-> 500, statusText |-> "Server Error",
      contentType |-> "application/json", body |-> TextBody(<<"o", "o", "p", "s">>)],
     [ok |-> FALSE, status |-> 500, statusText |-> "Server Error",
      contentType |-> "application/json", body |-> NullBody],
     [ok |-> FALSE, status |-> 500, statusText |-> "Server Error",
      contentType |-> "text/plain", body |-> TextBody(<<"b", "o", "o", "m">>)],
     [ok |-> FALSE, status |-> 500, statusText |-> "Server Error",
      contentType |-> "none", body |-> TextBody(<<>>)],
     [ok |-> FALSE, status |-> 502, statusText |-> "Bad Gateway",
      contentType |-> "text/plain", body |-> UnreadableBody],
     [ok |-> FALSE, status |-> 502, statusText |-> "Bad Gateway",
      contentType |-> "application/json", body |-> UnreadableBody],
     [ok |-> FALSE, status |-> 404, statusText |-> "Not Found",
      contentType |-> "text/plain", body |-> ObjectBody(<<"gone">>, <<>>)]}

\* response.url is the final URL: the request's, or another after a redirect.
RedirectedURL == <<"r">>
Responses(url) ==
    {Merge(s, [url |-> url]) : s \in ResponseShapes}
    \cup {Merge(s, [url |-> RedirectedURL]) :
             s \in {t \in ResponseShapes : t.status \in {200, 404}}}

(***************************************************************************)
(* Idle values of the parts a specification does not exercise              *)
(***************************************************************************)
HTTPIdle ==
    /\ client = [baseURL |-> <<>>, defaultOptions |-> Undefined]
    /\ defaultsObj = Undefined
    /\ pc = [c \in Callers |-> "idle"]
    /\ args = [c \in Callers |-> NoArgs]
    /\ callerOptions = [c \in Callers |-> Undefined]
    /\ request = [c \in Callers |-> NoRequest]
    /\ furl = [c \in Callers |-> <<>>]
    /\ response = [c \in Callers |-> NoResponse]
    /\ inner = [c \in Callers |-> Pending]
    /\ wrappers = [c \in Callers |-> 0]
    /\ result = [c \in Callers |-> Pending]
    /\ fetchCount = [c \in Callers |-> 0]
    /\ settleCount = [c \in Callers |-> 0]
    /\ logged = [c \in Callers |-> 0]
    /\ ncalls = 0
CompIdle ==
    /\ registry = <<>>
    /\ elems = <<>>
    /\ compThrew = FALSE
    /\ compLog = "none"
OpIdle ==
    /\ inflight = <<>>
    /\ opOutcome = [op |-> "none", cause |-> "none", kind |-> "none",
                    logged |-> FALSE, tag |-> "none"]
    /\ console = <<>>
FmtIdle ==
    /\ fmtIn = <<>>
    /\ fmtFn = "none"
    /\ fmtOut = <<>>
DomIdle ==
    /\ dom = <<>>
    /\ domCall = [fn |-> "none"]
    /\ domOut = [kind |-> "none"]
    /\ domCalls = 0

(***************************************************************************)
(* HTTP: the steps of a call                                               *)
(***************************************************************************)
Resolved(value) == [state |-> "resolved", value |-> value]
Rejected(error) == [state |-> "rejected", error |-> error]

\* What the platform fetch rejects with on a network failure: a TypeError whose
\* message the platform chooses ('Failed to fetch' in Chrome, 'fetch failed' in
\* Node).
NetworkMessages == {<<"Failed to fetch">>, <<"fetch failed">>}
NetworkError(message) ==
    [class |-> "TypeError", name |-> "TypeError", message |-> message]

\* What response.json() rejects with on a body that is not JSON: a SyntaxError
\* that names the end of the input for an empty body and the first character
\* for any other.
ParseError(body) ==
    [class |-> "SyntaxError", name |-> "SyntaxError",
     message |-> IF body.text = <<>> THEN <<"Unexpected end of JSON input">>
                 ELSE <<"Unexpected token '", body.text[1], "', \"">> \o body.text
                          \o <<"\" is not valid JSON">>]

\* The async functions between the function called and fetchJSON: each returns
\* the promise of the next, so its own promise follows a turn later (get, lines
\* 164-166; post -> postJSON, lines 176-178 and 87-97).  The client's methods
\* are plain arrows that hand back the promise they get (lines 243-248).
AsyncWrappers(fn) ==
    CASE fn \in {"fetchJSON", "api.fetchJSON"} -> 0
      [] fn \in {"get", "postJSON", "putJSON", "patchJSON", "deleteJSON", "api.get"} -> 1
      [] fn \in {"post", "put", "patch", "del",
                 "api.post", "api.put", "api.patch", "api.delete"} -> 2

\* fetchJSON without its 204 test: every ok response has its body read.
NoContentIgnored(r) == FALSE

\* fetchJSON, lines 64-66: response.status === 204.
NoContent(r) == r.status = 204

\* The value response.json() resolves with.
Parsed(body) == IF body.kind = "null" THEN [json |-> "null"] ELSE [json |-> body.data]

HTTPInit ==
    /\ client \in Clients
    /\ defaultsObj = client.defaultOptions
    /\ pc = [c \in Callers |-> "idle"]
    /\ args = [c \in Callers |-> NoArgs]
    /\ callerOptions = [c \in Callers |-> Undefined]
    /\ request = [c \in Callers |-> NoRequest]
    /\ furl = [c \in Callers |-> <<>>]
    /\ response = [c \in Callers |-> NoResponse]
    /\ inner = [c \in Callers |-> Pending]
    /\ wrappers = [c \in Callers |-> 0]
    /\ result = [c \in Callers |-> Pending]
    /\ fetchCount = [c \in Callers |-> 0]
    /\ settleCount = [c \in Callers |-> 0]
    /\ logged = [c \in Callers |-> 0]
    /\ ncalls = 0

\* A caller calls one of the exported functions or client methods.  The wrapper
\* and fetchJSON run synchronously up to `await fetch(url, init)`; neither the
\* caller's options object nor the client's defaultOptions is written.
\* JSON.stringify(data) stands in the body of postJSON, putJSON and patchJSON
\* outside any try block (lines 87-139): when it throws, fetchJSON is not
\* called, nothing is logged, and the promise of that function is rejected with
\* the TypeError as the call returns; the promise of post, put or patch
\* follows a turn later.
Call(c, argSet) ==
    /\ pc[c] \in {"idle", "resolved", "rejected"}
    /\ ncalls < MaxCalls
    /\ \E a \in argSet :
          /\ defaultsObj' = IF a.fn \in ClientFns
                            THEN defaultOptionsAfter(defaultsObj, a.options)
                            ELSE defaultsObj
          /\ IF a.fn \in BodyFns /\ a.data = Cyclic
             THEN \E m \in CycleMessages :
                    /\ args' = [args EXCEPT ![c] = NoArgs]
                    /\ callerOptions' = [callerOptions EXCEPT ![c] = Undefined]
                    /\ request' = [request EXCEPT ![c] = NoRequest]
                    /\ furl' = [furl EXCEPT ![c] = <<>>]
                    /\ response' = [response EXCEPT ![c] = Failure(StringifyError(m))]
                    /\ fetchCount' = [fetchCount EXCEPT ![c] = 0]
                    /\ inner' = [inner EXCEPT ![c] = Rejected(StringifyError(m))]
                    /\ wrappers' = [wrappers EXCEPT ![c] = AsyncWrappers(a.fn) - 1]
                    /\ IF AsyncWrappers(a.fn) = 1
                       THEN /\ pc' = [pc EXCEPT ![c] = "rejected"]
                            /\ result' = [result EXCEPT ![c] =
                                             Rejected(StringifyError(m))]
                            /\ settleCount' = [settleCount EXCEPT ![c] = 1]
                       ELSE /\ pc' = [pc EXCEPT ![c] = "relaying"]
                            /\ result' = [result EXCEPT ![c] = Pending]
                            /\ settleCount' = [settleCount EXCEPT ![c] = 0]
             ELSE /\ args' = [args EXCEPT ![c] = a]
                  /\ wrappers' = [wrappers EXCEPT ![c] = AsyncWrappers(a.fn)]
                  /\ callerOptions' = [callerOptions EXCEPT ![c] = a.options]
                  /\ request' = [request EXCEPT ![c] =
                                    IssuedRequest(a, [baseURL |-> client.baseURL,
                                                      defaultOptions |-> defaultsObj])]
                  /\ furl' = [furl EXCEPT ![c] =
                                    FetchArgs(a, [baseURL |-> client.baseURL,
                                                  defaultOptions |-> defaultsObj]).url]
                  /\ pc' = [pc EXCEPT ![c] = "fetching"]
                  /\ response' = [response EXCEPT ![c] = NoResponse]
                  /\ inner' = [inner EXCEPT ![c] = Pending]
                  /\ result' = [result EXCEPT ![c] = Pending]
                  /\ fetchCount' = [fetchCount EXCEPT ![c] = 1]
                  /\ settleCount' = [settleCount EXCEPT ![c] = 0]
    /\ logged' = [logged EXCEPT ![c] = 0]
    /\ ncalls' = ncalls + 1
    /\ UNCHANGED <<client, compVars, opVars, fmtVars, domVars, urlVars>>

\* The request has left: the call's arguments and init object are garbage.
Answered(c) ==
    /\ args' = [args EXCEPT ![c] = NoArgs]
    /\ callerOptions' = [callerOptions EXCEPT ![c] = Undefined]
    /\ request' = [request EXCEPT ![c] = NoRequest]

\* fetchJSON's promise settles with an outcome.  With no async wrapper around
\* fetchJSON that promise is the caller's; otherwise the wrappers' promises follow
\* in later turns.
SettleInner(c, outcome) ==
    /\ inner' = [inner EXCEPT ![c] = outcome]
    /\ IF wrappers[c] = 0
       THEN /\ pc' = [pc EXCEPT ![c] = outcome.state]
            /\ result' = [result EXCEPT ![c] = outcome]
            /\ settleCount' = [settleCount EXCEPT ![c] = @ + 1]
       ELSE /\ pc' = [pc EXCEPT ![c] = "relaying"]
            /\ UNCHANGED <<result, settleCount>>
    /\ UNCHANGED wrappers

\* The platform fetch resolves.  fetchJSON resumes at line 62 and calls
\* handleResponse, which for a response that is not ok starts the read of the
\* body and for an ok response returns at once; fetchJSON awaits its promise in
\* either case, so nothing of lines 64-67 has run yet.
FetchResolve(c) ==
    /\ pc[c] = "fetching"
    /\ \E r \in Responses(request[c].url) :
          /\ response' = [response EXCEPT ![c] = r]
          /\ pc' = [pc EXCEPT ![c] = IF r.ok THEN "handled" ELSE "errbody"]
    /\ Answered(c)
    /\ UNCHANGED <<client, defaultsObj, furl, inner, wrappers, result, fetchCount,
                   settleCount, logged, ncalls>>
    /\ UNCHANGED <<compVars, opVars, fmtVars, domVars, urlVars>>

\* The await of handleResponse's promise for an ok response is over: fetchJSON,
\* lines 64-67, returns undefined for 204 and otherwise calls response.json().
Handled(c) ==
    /\ pc[c] = "handled"
    /\ IF NoContent(response[c])
       THEN SettleInner(c, Resolved(Undefined))
       ELSE /\ pc' = [pc EXCEPT ![c] = "body"]
            /\ UNCHANGED <<inner, wrappers, result, settleCount>>
    /\ UNCHANGED <<client, defaultsObj, args, callerOptions, request, furl,
                   response, fetchCount, logged, ncalls>>
    /\ UNCHANGED <<compVars, opVars, fmtVars, domVars, urlVars>>

\* A catch block that calls fetch again after a network failure.
FetchRejectRetries(c) ==
    /\ pc[c] = "fetching"
    /\ fetchCount[c] < 2
    /\ fetchCount' = [fetchCount EXCEPT ![c] = @ + 1]
    /\ \E m \in NetworkMessages :
          logged' = [logged EXCEPT ![c] = @ + fetchJSONLogs(NetworkError(m))]
    /\ UNCHANGED <<client, defaultsObj, pc, args, callerOptions, request, furl,
                   response, inner, wrappers, result, settleCount, ncalls>>
    /\ UNCHANGED <<compVars, opVars, fmtVars, domVars, urlVars>>

\* The platform fetch rejects (network failure): fetchJSON's catch block logs
\* the error and throws its wrapping.
FetchReject(c) ==
    /\ pc[c] = "fetching"
    /\ \E m \in NetworkMessages :
          /\ response' = [response EXCEPT ![c] = Failure(NetworkError(m))]
          /\ SettleInner(c, Rejected(fetchJSONCatch(furl[c], NetworkError(m))))
          /\ logged' = [logged EXCEPT ![c] = @ + fetchJSONLogs(NetworkError(m))]
    /\ Answered(c)
    /\ UNCHANGED <<client, defaultsObj, furl, fetchCount, ncalls>>
    /\ UNCHANGED <<compVars, opVars, fmtVars, domVars, urlVars>>

\* The read of a non-ok response's body settles: handleResponse throws its
\* HTTPError, which passes through fetchJSON's catch block.
ErrBodySettle(c) ==
    /\ pc[c] = "errbody"
    /\ SettleInner(c, Rejected(fetchJSONCatch(furl[c], handleResponse(response[c]))))
    /\ logged' = [logged EXCEPT ![c] = @ + fetchJSONLogs(handleResponse(response[c]))]
    /\ UNCHANGED <<client, defaultsObj, args, callerOptions, request, furl,
                   response, fetchCount, ncalls>>
    /\ UNCHANGED <<compVars, opVars, fmtVars, domVars, urlVars>>

\* response.json() of an ok response settles: fetchJSON, line 67, or its catch.
BodySettle(c) ==
    /\ pc[c] = "body"
    /\ IF JSONReadable(response[c].body)
       THEN /\ SettleInner(c, Resolved(Parsed(response[c].body)))
            /\ UNCHANGED logged
       ELSE /\ SettleInner(c, Rejected(fetchJSONCatch(furl[c],
                                                     ParseError(response[c].body))))
            /\ logged' = [logged EXCEPT ![c] =
                             @ + fetchJSONLogs(ParseError(response[c].body))]
    /\ UNCHANGED <<client, defaultsObj, args, callerOptions, request, furl,
                   response, fetchCount, ncalls>>
    /\ UNCHANGED <<compVars, opVars, fmtVars, domVars, urlVars>>

\* The promise of the innermost async wrapper still pending follows the promise
\* it returned; the last one is the promise the caller holds.
Relay(c) ==
    /\ pc[c] = "relaying"
    /\ wrappers' = [wrappers EXCEPT ![c] = @ - 1]
    /\ IF wrappers[c] = 1
       THEN /\ pc' = [pc EXCEPT ![c] = inner[c].state]
            /\ result' = [result EXCEPT ![c] = inner[c]]
            /\ settleCount' = [settleCount EXCEPT ![c] = @ + 1]
       ELSE UNCHANGED <<pc, result, settleCount>>
    /\ UNCHANGED <<client, defaultsObj, args, callerOptions, request, furl,
                   response, inner, fetchCount, logged, ncalls>>
    /\ UNCHANGED <<compVars, opVars, fmtVars, domVars, urlVars>>

(***************************************************************************)
(* HTTP: the claims                                                        *)
(***************************************************************************)
HasResponse(c) == response[c].status # 0
Settled(c) == pc[c] \in {"resolved", "rejected"}

\* C1: a response whose ok flag is false makes the call reject with an HTTPError
\* named 'HTTPError' that carries the response's status, statusText and url; the
\* error is not wrapped, and the body is never returned as data.
C1_NonOkRejectsWithHTTPError ==
    \A c \in Callers :
        (HasResponse(c) /\ ~response[c].ok) =>
            /\ pc[c] \in {"errbody", "relaying", "rejected"}
            /\ result[c].state # "resolved"
            /\ pc[c] = "rejected" =>
                  /\ result[c].state = "rejected"
                  /\ result[c].error.class = "HTTPError"
                  /\ result[c].error.name = "HTTPError"
                  /\ result[c].error.status = response[c].status
                  /\ result[c].error.statusText = response[c].statusText
                  /\ result[c].error.url = response[c].url
                  /\ logged[c] = 0

C1_Witness ==
    \E c \in Callers :
        /\ pc[c] = "rejected"
        /\ HasResponse(c)
        /\ response[c].status = 404
        /\ response[c].url = RedirectedURL
        /\ furl[c] # RedirectedURL
        /\ result[c].error.url = RedirectedURL

\* C2: every rejection of a call is an instance of HTTPError.
C2_EveryRejectionIsHTTPError ==
    \A c \in Callers :
        result[c].state = "rejected" => InstanceOfHTTPError(result[c].error)

\* The call threw in JSON.stringify(data) before it reached fetch.
Unsent(c) == response[c] \in {Failure(StringifyError(m)) : m \in CycleMessages}

\* C3: each call whose data JSON.stringify accepts invokes the platform fetch
\* exactly once, and a call whose data it throws on invokes it not at all; the
\* promise of a call settles at most once and, when the platform fetch and the
\* body read settle, exactly once; a failure is not followed by a second fetch.
C3_SingleShotOnceSerialised ==
    /\ [](\A c \in Callers :
            /\ pc[c] # "idle" => fetchCount[c] = IF Unsent(c) THEN 0 ELSE 1
            /\ Unsent(c) => result[c].state # "resolved"
            /\ settleCount[c] = IF Settled(c) THEN 1 ELSE 0
            /\ Settled(c) <=> result[c].state # "pending")
    /\ \A c \in Callers : (pc[c] \in {"fetching", "relaying"}) ~> Settled(c)

\* C3 as stated: every call invokes the platform fetch exactly once.
C3_SingleShot ==
    /\ [](\A c \in Callers :
            /\ pc[c] # "idle" => fetchCount[c] = 1
            /\ settleCount[c] = IF Settled(c) THEN 1 ELSE 0
            /\ Settled(c) <=> result[c].state # "pending")
    /\ \A c \in Callers : (pc[c] = "fetching") ~> Settled(c)

C3_Witness ==
    \E c \in Callers :
        /\ pc[c] = "rejected"
        /\ ~HasResponse(c)
        /\ fetchCount[c] = 1
        /\ settleCount[c] = 1

\* C4: the request of every call in flight is the one its own arguments and the
\* client's configuration determine, whatever other calls were made before or
\* are in flight beside it; no call writes the client's defaultOptions or the
\* caller's options object; and the outcome of a call is determined by its own
\* response.
C4_RequestsIndependent ==
    /\ defaultsObj = client.defaultOptions
    /\ \A c \in Callers :
          pc[c] = "fetching" =>
              /\ callerOptions[c] = args[c].options
              /\ request[c] = IssuedRequest(args[c], client)
    /\ \A c, d \in Callers :
          (pc[c] = "fetching" /\ pc[d] = "fetching" /\ args[c] = args[d])
              => request[c] = request[d]
    /\ \A c, d \in Callers :
          (Settled(c) /\ Settled(d) /\ response[c] = response[d]
             /\ furl[c] = furl[d]) => result[c] = result[d]

C4_Witness ==
    /\ client.defaultOptions # Undefined
    /\ pc["A"] = "fetching" /\ args["A"].fn = "api.post"
    /\ args["A"].options = RichOptions
    /\ pc["B"] = "rejected" /\ HasResponse("B")

\* The HTTP method each verb wrapper stands for.
VerbOf(fn) ==
    CASE fn \in {"get"} -> "GET"
      [] fn \in {"post", "postJSON"} -> "POST"
      [] fn \in {"put", "putJSON"} -> "PUT"
      [] fn \in {"patch", "patchJSON"} -> "PATCH"
      [] fn \in {"del", "deleteJSON"} -> "DELETE"

\* C8: the verb wrappers issue their request to exactly the given url, with
\* their own method even when the caller's options name another, and for
\* POST, PUT and PATCH with JSON.stringify(data) as the body even when the
\* caller's options hold a body; every other caller option reaches fetch.
C8_VerbsForwardArguments ==
    \A c \in Callers :
        (pc[c] = "fetching" /\ args[c].fn \in ModuleFns \ {"fetchJSON"}) =>
            LET a == args[c]
                o == Spread(a.options)
                init == request[c].init
                overridden == IF a.fn \in BodyFns THEN {"method", "body", "headers"}
                              ELSE {"method", "headers"}
            IN  /\ request[c].url = a.url
                /\ init.method = VerbOf(a.fn)
                /\ a.fn \in BodyFns => init.body = JSONStringify(a.data)
                /\ \A k \in (DOMAIN o) \ overridden :
                      k \in DOMAIN init /\ init[k] = o[k]
                /\ "headers" \in DOMAIN o =>
                      \A h \in DOMAIN o.headers :
                          h \in DOMAIN init.headers /\ init.headers[h] = o.headers[h]

C8_Witness ==
    \E c \in Callers :
        /\ pc[c] = "fetching"
        /\ args[c].fn = "post"
        /\ args[c].options = RichOptions
        /\ args[c].data = "d2"
        /\ request[c].init.method = "POST"
        /\ request[c].init.body = JSONStringify("d2")
        /\ request[c].init.mode = "cors"

\* A string without its leading, or its trailing, slashes.
DropLeadingSlashes(str) ==
    LET n == CHOOSE i \in 0..Len(str) :
                 /\ \A j \in 1..i : str[j] = "/"
                 /\ i < Len(str) => str[i + 1] # "/"
    IN  SubSeq(str, n + 1, Len(str))
DropTrailingSlashes(str) ==
    LET n == CHOOSE i \in 0..Len(str) :
                 /\ \A j \in (Len(str) - i + 1)..Len(str) : str[j] = "/"
                 /\ i < Len(str) => str[Len(str) - i] # "/"
    IN  SubSeq(str, 1, Len(str) - n)
IsAbsolute(url) ==
    \/ StartsWith(url, <<"h","t","t","p",":","/","/">>)
    \/ StartsWith(url, <<"h","t","t","p","s",":","/","/">>)

\* C12: every method of a createFetch client requests an absolute url
\* unchanged, and any other url as baseURL and url with exactly one '/'
\* between them, whatever slashes end baseURL or start url.
C12_JoinedWithOneSlash ==
    \A c \in Callers :
        (pc[c] = "fetching" /\ args[c].fn \in ClientFns) =>
            request[c].url =
                IF IsAbsolute(args[c].url) THEN args[c].url
                ELSE DropTrailingSlashes(client.baseURL) \o <<"/">>
                         \o DropLeadingSlashes(args[c].url)


\* The request of a client call carries, for every option key outside
\* `excluded`, the per-request value, or else the default value.
OptionsMerged(c, excluded) ==
    LET o == Spread(args[c].options)
        dflt == Spread(defaultsObj)
        init == request[c].init
    IN  \A key \in ((DOMAIN o) \cup (DOMAIN dflt)) \ excluded :
            /\ key \in DOMAIN init
            /\ init[key] = IF key \in DOMAIN o THEN o[key] ELSE dflt[key]

\* The request's headers are the built-in Content-Type, overridden key by key
\* by the default headers, overridden key by key by the per-request headers.
HeadersMerged(c) ==
    LET oh == Spread(HeadersOf(args[c].options))
        dh == Spread(HeadersOf(defaultsObj))
        h == request[c].init.headers
    IN  /\ "Content-Type" \in DOMAIN h
        /\ \A name \in DOMAIN oh : name \in DOMAIN h /\ h[name] = oh[name]
        /\ \A name \in (DOMAIN dh) \ (DOMAIN oh) :
               name \in DOMAIN h /\ h[name] = dh[name]
        /\ "Content-Type" \notin (DOMAIN oh) \cup (DOMAIN dh) =>
               h["Content-Type"] = "application/json"
        /\ DOMAIN h = {"Content-Type"} \cup (DOMAIN oh) \cup (DOMAIN dh)

\* C13 as amended: a createFetch client merges its default options into each
\* request: for every option other than headers, method and, for post, put and
\* patch, body, the per-request value overrides the default and defaults not
\* overridden are kept; headers are merged key by key, per-request over default
\* over the built-in Content-Type, so every request carries a Content-Type
\* header and every default header the request did not override.
C13_DefaultsMerged ==
    \A c \in Callers :
        (pc[c] = "fetching" /\ args[c].fn \in ClientFns) =>
            /\ OptionsMerged(c, IF args[c].fn \in BodyFns
                                THEN {"headers", "method", "body"}
                                ELSE {"headers", "method"})
            /\ HeadersMerged(c)

C13_Witness ==
    \E c \in Callers :
        /\ pc[c] = "fetching"
        /\ args[c].fn = "api.fetchJSON"
        /\ args[c].options = RichOptions
        /\ defaultsObj = DefaultOptions2
        /\ request[c].init.body = <<"raw", "x">>
        /\ request[c].init.mode = "cors"
        /\ request[c].init.cache = "no-store"
        /\ request[c].init.headers["Content-Type"] = "text/xml"
        /\ request[c].init.headers["X-Trace"] = "1"

\* C13 as stated: for every option other than headers and method the
\* per-request value overrides the default and defaults not overridden are
\* kept, and headers are merged key by key.
C13_AllButHeadersAndMethod ==
    \A c \in Callers :
        (pc[c] = "fetching" /\ args[c].fn \in ClientFns) =>
            /\ OptionsMerged(c, {"headers", "method"})
            /\ HeadersMerged(c)

\* C20: for an ok response fetchJSON resolves to undefined, without reading
\* the body, when the status is 204, and otherwise to the parsed JSON body; an
\* ok response with another status whose body is empty or not valid JSON
\* rejects with a generic Error whose message is 'Failed to fetch from ', the
\* url, ': ' and the parser's message.
C20_OkResponseSettles ==
    \A c \in Callers :
        /\ pc[c] = "body" => response[c].ok /\ response[c].status # 204
        /\ (pc[c] \in {"resolved", "rejected"} /\ HasResponse(c) /\ response[c].ok) =>
              IF response[c].status = 204
              THEN result[c] = Resolved(Undefined)
              ELSE IF response[c].body.kind = "object"
              THEN result[c] = Resolved([json |-> response[c].body.data])
              ELSE IF response[c].body.kind = "null"
              THEN result[c] = Resolved([json |-> "null"])
              ELSE /\ result[c].state = "rejected"
                   /\ result[c].error.class = "Error"
                   /\ result[c].error.message =
                         <<"Failed to fetch from ", furl[c], ": ",
                           ParseError(response[c].body).message>>

C20_Witness ==
    \E c \in Callers :
        /\ pc[c] = "rejected" /\ HasResponse(c)
        /\ response[c].ok /\ response[c].status = 200
        /\ response[c].body = TextBody(<<>>)
        /\ result[c].error.class = "Error"
        /\ furl[c] = <<"b", "/", "u">>

\* The default message of handleResponse, line 24.
DefaultMessage(r) == <<"HTTP ", r.status, ": ", r.statusText>>

\* C21: the message of the HTTPError for a non-ok response is, for a JSON content
\* type, the parsed body's message field, else its error field, else
\* 'HTTP <status>: <statusText>'; for another content type the body text when it
\* is not empty, else the default; and the default when the read or the parse
\* throws.  In each case the call rejects with an HTTPError.
C21_ErrorMessageOrder ==
    \A c \in Callers :
        (pc[c] = "rejected" /\ HasResponse(c) /\ ~response[c].ok) =>
            LET r == response[c]
                e == result[c].error
                json == r.contentType \in {"application/json",
                                           "application/json; charset=utf-8"}
                parsed == json /\ r.body.kind = "object"
            IN  /\ result[c].state = "rejected"
                /\ InstanceOfHTTPError(e)
                /\ (parsed /\ r.body.message # <<>>) => e.message = r.body.message
                /\ (parsed /\ r.body.message = <<>> /\ r.body.error # <<>>) =>
                       e.message = r.body.error
                /\ (parsed /\ r.body.message = <<>> /\ r.body.error = <<>>) =>
                       e.message = DefaultMessage(r)
                /\ (json /\ ~parsed) => e.message = DefaultMessage(r)
                /\ (~json /\ r.body.kind # "unreadable" /\ r.body.text # <<>>) =>
                       e.message = r.body.text
                /\ (~json /\ r.body.kind # "unreadable" /\ r.body.text = <<>>) =>
                       e.message = DefaultMessage(r)
                /\ (~json /\ r.body.kind = "unreadable") =>
                       e.message = DefaultMessage(r)

C21_Witness ==
    \E c \in Callers :
        /\ pc[c] = "rejected"
        /\ HasResponse(c)
        /\ ~response[c].ok
        /\ response[c].contentType = "application/json"
        /\ response[c].body.kind = "object"
        /\ response[c].body.message = <<>>
        /\ response[c].body.error = <<"E404">>
        /\ result[c].error.message = <<"E404">>

(***************************************************************************)
(* Component: src/docs/lib/dom/component.js                                *)
(***************************************************************************)


\* The tag names passed to component(): "card", "u-c" and "U-c".
Tags == {<<"c","a","r","d">>, <<"u","-","c">>, <<"U","-","c">>}

\* The platform's test of a custom element name in customElements.define: it
\* starts with a lowercase letter, holds a hyphen and no uppercase letter.
ValidCustomElementName(tagName) ==
    /\ Len(tagName) > 0
    /\ tagName[1] \in LowerLetters
    /\ Includes(tagName, "-")
    /\ \A i \in 1..Len(tagName) : tagName[i] \notin UpperLetters

NoDef == [render |-> "none"]
Renders == {"r1", "r2", "r3"}
AttrNames == {"name", "role", "id"}
AttrValues == {"v1", "v2"}
Absent == "absent"
ObservedSets == {{}, {"name"}, {"name", "role"}}
ElemIds == {"e1"}
ElemTag == <<"u","-","c">>
InitialChild == [kind |-> "text"]
NoOutput == [type |-> "none"]

\* customElements.define(tagName, cls) throws for an invalid name and for a
\* name that is already defined.
DefineThrows(tagName, reg) ==
    ~ValidCustomElementName(tagName) \/ reg[tagName] # NoDef

\* component without its try/catch around customElements.define.
componentNoCatch(tagName, reg) ==
    IF ~Includes(tagName, "-")
    THEN [defined |-> FALSE, threw |-> FALSE, log |-> "error: invalid tag name"]
    ELSE IF reg[tagName] # NoDef
    THEN [defined |-> FALSE, threw |-> FALSE, log |-> "warn: already defined"]
    ELSE IF DefineThrows(tagName, reg)
    THEN [defined |-> FALSE, threw |-> TRUE, log |-> "none"]
    ELSE [defined |-> TRUE, threw |-> FALSE, log |-> "none"]

\* component, lines 15-23 and 63-68: whether the call defines the element,
\* whether an exception escapes it, and the console line it writes.
component(tagName, reg) ==
    IF ~Includes(tagName, "-")
    THEN [defined |-> FALSE, threw |-> FALSE, log |-> "error: invalid tag name"]
    ELSE IF reg[tagName] # NoDef
    THEN [defined |-> FALSE, threw |-> FALSE, log |-> "warn: already defined"]
    ELSE IF DefineThrows(tagName, reg)
    THEN [defined |-> FALSE, threw |-> FALSE, log |-> "error: failed to define"]
    ELSE [defined |-> TRUE, threw |-> FALSE, log |-> "none"]

\* getProps, lines 39-46: every attribute of the element, name to value.
getProps(attrs) ==
    [a \in {n \in AttrNames : attrs[n] # Absent} |-> attrs[a]]

\* The render callbacks: r1 returns an HTML string, r2 an HTMLElement and r3
\* undefined; what r1 and r2 return is built from the props.
renderCallback(r, props) ==
    CASE r = "r1" -> [type |-> "string", by |-> r, props |-> props]
      [] r = "r2" -> [type |-> "HTMLElement", by |-> r, props |-> props]
      [] OTHER -> [type |-> "undefined"]

\* A render that leaves the children in place.
removeChildrenKeeps(children) == children

\* render, lines 51-53: while (this.firstChild) this.removeChild(this.firstChild).
RECURSIVE removeChildren(_)
removeChildren(children) ==
    IF children = <<>> THEN children ELSE removeChildren(Tail(children))

\* The innerHTML setter replaces every child by the parsed markup.
setInnerHTML(children, content) == <<[kind |-> "markup", of |-> content]>>

\* render, lines 51-60: all children are removed, then a string becomes the
\* element's innerHTML and an HTMLElement its last child.
Install(children, content) ==
    LET cleared == removeChildren(children)
    IN  IF content.type = "string"
        THEN setInnerHTML(cleared, content)
        ELSE IF content.type = "HTMLElement"
        THEN cleared \o <<[kind |-> "element", of |-> content]>>
        ELSE cleared

\* render, lines 47-61.  renders counts the calls of the render callback made
\* by the operation under way; output is what the latest call returned.
renderElement(el, def) ==
    LET content == renderCallback(def.render, getProps(el.attrs))
    IN  [el EXCEPT !.content = Install(el.content, content),
                   !.dirty = FALSE,
                   !.renders = @ + 1,
                   !.output = content]

\* An operation starts: no render callback has run in it yet.
Fresh(el) == [el EXCEPT !.renders = 0]

\* A callback that re-renders only when the attribute has a new value.
attributeChangedSkipsRemoval(oldValue, newValue) ==
    oldValue # newValue /\ newValue # Absent

\* attributeChangedCallback, line 35: whether the change re-renders.
attributeChanged(oldValue, newValue) == oldValue # newValue

\* A callback that renders only an element that is in the document.
attributeChangedCallbackIfConnected(el, def, oldValue, newValue) ==
    IF el.connected /\ attributeChanged(oldValue, newValue)
    THEN renderElement(el, def) ELSE el

\* attributeChangedCallback, lines 34-38.
attributeChangedCallback(el, def, oldValue, newValue) ==
    IF attributeChanged(oldValue, newValue) THEN renderElement(el, def) ELSE el

\* connectedCallback, lines 31-33.
connectedCallback(el, def) == renderElement(el, def)

\* The platform upgrades a connected element whose tag becomes defined: the
\* element becomes an AckerComponent, attributeChangedCallback(name, null,
\* value) runs for each observed attribute it has, then connectedCallback.
RECURSIVE upgradeAttributes(_, _, _)
upgradeAttributes(el, def, names) ==
    IF names = {} THEN el
    ELSE LET n == CHOOSE m \in names : TRUE
         IN  upgradeAttributes(
                 IF n \in def.observed /\ el.attrs[n] # Absent
                 THEN attributeChangedCallback(el, def, Absent, el.attrs[n])
                 ELSE el,
                 def, names \ {n})

upgrade(el, def) ==
    connectedCallback(upgradeAttributes([el EXCEPT !.upgraded = TRUE], def, AttrNames),
                      def)

CompInit ==
    /\ registry = [t \in Tags |-> NoDef]
    /\ elems = [e \in ElemIds |->
                  [tag |-> ElemTag, upgraded |-> FALSE, connected |-> FALSE,
                   attrs |-> [a \in AttrNames |-> Absent],
                   content |-> <<InitialChild>>, dirty |-> FALSE,
                   renders |-> 0, output |-> NoOutput]]
    /\ compThrew = FALSE
    /\ compLog = "none"

\* component(tagName, render, observedAttributes).  A successful define upgrades
\* the connected elements of that tag.
Component(tagName, r, observed) ==
    LET out == component(tagName, registry)
        def == [render |-> r, observed |-> observed]
    IN  /\ compThrew' = out.threw
        /\ compLog' = out.log
        /\ registry' = IF out.defined THEN [registry EXCEPT ![tagName] = def]
                       ELSE registry
        /\ elems' = IF out.defined
                    THEN [e \in ElemIds |->
                            IF elems[e].tag = tagName /\ elems[e].connected
                            THEN upgrade(Fresh(elems[e]), def)
                            ELSE Fresh(elems[e])]
                    ELSE [e \in ElemIds |-> Fresh(elems[e])]
        /\ UNCHANGED <<httpVars, opVars, fmtVars, domVars, urlVars>>

\* element.setAttribute(name, value); the platform calls
\* attributeChangedCallback of an upgraded element for an observed name.
SetAttribute(e, name, value) ==
    LET el == Fresh(elems[e])
        def == registry[el.tag]
        set == [el EXCEPT !.attrs[name] = value,
                          !.dirty = @ \/ (/\ el.upgraded
                                           /\ name \notin def.observed
                                           /\ el.attrs[name] # value)]
    IN  /\ elems' = [elems EXCEPT ![e] =
                        IF el.upgraded /\ name \in def.observed
                        THEN attributeChangedCallback(set, def, el.attrs[name], value)
                        ELSE set]
        /\ UNCHANGED <<registry, compThrew, compLog, httpVars, opVars, fmtVars, domVars, urlVars>>

\* element.removeAttribute(name) of an attribute the element has.
RemoveAttribute(e, name) ==
    LET el == Fresh(elems[e])
        def == registry[el.tag]
        set == [el EXCEPT !.attrs[name] = Absent,
                          !.dirty = @ \/ (el.upgraded /\ name \notin def.observed)]
    IN  /\ el.attrs[name] # Absent
        /\ elems' = [elems EXCEPT ![e] =
                        IF el.upgraded /\ name \in def.observed
                        THEN attributeChangedCallback(set, def, el.attrs[name], Absent)
                        ELSE set]
        /\ UNCHANGED <<registry, compThrew, compLog, httpVars, opVars, fmtVars, domVars, urlVars>>

\* The element is inserted into the document: connectedCallback of an upgraded
\* element, an upgrade of one whose tag is defined.
Connect(e) ==
    LET el == [Fresh(elems[e]) EXCEPT !.connected = TRUE]
        def == registry[el.tag]
    IN  /\ ~elems[e].connected
        /\ elems' = [elems EXCEPT ![e] =
                        IF el.upgraded THEN connectedCallback(el, def)
                        ELSE IF def # NoDef THEN upgrade(el, def)
                        ELSE el]
        /\ UNCHANGED <<registry, compThrew, compLog, httpVars, opVars, fmtVars, domVars, urlVars>>

\* e = document.createElement(tag) once the tag is defined: the platform
\* constructs an AckerComponent, which has no attribute and no child and is not
\* in the document; the constructor (lines 28-30) renders nothing.
CreateElement(e) ==
    /\ ~elems[e].upgraded
    /\ ~elems[e].connected
    /\ registry[elems[e].tag] # NoDef
    /\ elems' = [elems EXCEPT ![e] =
                    [tag |-> elems[e].tag, upgraded |-> TRUE, connected |-> FALSE,
                     attrs |-> [a \in AttrNames |-> Absent],
                     content |-> <<>>, dirty |-> FALSE,
                     renders |-> 0, output |-> NoOutput]]
    /\ UNCHANGED <<registry, compThrew, compLog, httpVars, opVars, fmtVars, domVars, urlVars>>

\* The element is removed from the document; the class has no
\* disconnectedCallback.
Disconnect(e) ==
    /\ elems[e].connected
    /\ elems' = [elems EXCEPT ![e] = [Fresh(@) EXCEPT !.connected = FALSE]]
    /\ UNCHANGED <<registry, compThrew, compLog, httpVars, opVars, fmtVars, domVars, urlVars>>

\* C6: a connected element of a defined component, after any additions, changes
\* and removals of observed attributes, holds the render callback's result for
\* the props made of all its current attributes.
C6_ContentFollowsObservedAttributes ==
    \A e \in ElemIds :
        LET el == elems[e]
            def == registry[el.tag]
        IN  (el.connected /\ def # NoDef /\ ~el.dirty) =>
                /\ el.upgraded
                /\ el.content =
                     Install(<<>>, renderCallback(def.render, getProps(el.attrs)))

C6_Witness ==
    \E e \in ElemIds :
        /\ elems[e].connected /\ elems[e].upgraded /\ ~elems[e].dirty
        /\ registry[elems[e].tag].render = "r1"
        /\ registry[elems[e].tag].observed = {"name", "role"}
        /\ elems[e].attrs["name"] = "v2"
        /\ elems[e].attrs["role"] = Absent
        /\ elems[e].attrs["id"] = "v1"
        /\ elems[e].content =
             <<[kind |-> "markup",
                of |-> [type |-> "string", by |-> "r1",
                        props |-> [name |-> "v2", id |-> "v1"]]]>>

\* C7: component() never throws and never replaces a registration: a tag name
\* without a hyphen and a tag name already defined register nothing, and a
\* failing define is caught.
C7_NeverThrowsNeverReplaces ==
    /\ [](/\ compThrew = FALSE
          /\ \A t \in Tags : registry[t] # NoDef => Includes(t, "-"))
    /\ [][\A t \in Tags : registry[t] # NoDef => registry'[t] = registry[t]]_vars

C7_Witness ==
    /\ compLog = "error: failed to define"
    /\ registry[<<"u","-","c">>] # NoDef
    /\ registry[<<"U","-","c">>] = NoDef
    /\ compThrew = FALSE

\* The children an element holds when it holds exactly one render output.
ChildrenOf(output) ==
    IF output.type = "string" THEN <<[kind |-> "markup", of |-> output]>>
    ELSE IF output.type = "HTMLElement" THEN <<[kind |-> "element", of |-> output]>>
    ELSE <<>>

\* C22: each render removes all children of the element before it installs the
\* new content: an element that has rendered holds exactly the output of the
\* latest call of the render callback, nothing of earlier renders or of its
\* initial markup, and no child at all when the callback returned neither a
\* string nor an HTMLElement.
C22_ContentIsLatestRender ==
    \A e \in ElemIds :
        elems[e].output # NoOutput =>
            /\ elems[e].content = ChildrenOf(elems[e].output)
            /\ Len(elems[e].content) <= 1
            /\ elems[e].output.type \notin {"string", "HTMLElement"} =>
                   elems[e].content = <<>>

C22_Witness ==
    \E e \in ElemIds :
        /\ elems[e].upgraded
        /\ elems[e].renders = 3
        /\ elems[e].output.type = "HTMLElement"
        /\ elems[e].output.props = [name |-> "v1", role |-> "v2"]
        /\ elems[e].content = <<[kind |-> "element", of |-> elems[e].output]>>

\* The observed attributes whose value differs between two states of an element.
ObservedChanges(before, after, def) ==
    {n \in def.observed : before.attrs[n] # after.attrs[n]}

\* The observed attributes an element has.
ObservedPresent(el, def) == {n \in def.observed : el.attrs[n] # Absent}

\* C25: the render callback runs once in each connectedCallback and once in each
\* attributeChangedCallback whose old and new values differ.  The platform
\* delivers these to an upgraded element whether or not it is in the document:
\* one render for an insertion, one for a change of an observed attribute to a
\* different value, and at an upgrade one for each observed attribute present
\* and one more for the connection.  No other operation renders.
C25_RenderFollowsCallbacks ==
    [][\A e \in ElemIds :
          LET before == elems[e]
              after == elems'[e]
              def == registry'[after.tag]
          IN  after.renders =
                IF ~after.upgraded THEN 0
                ELSE IF ~before.upgraded
                THEN IF after.connected
                     THEN Cardinality(ObservedPresent(after, def)) + 1
                     ELSE 0
                ELSE IF ~before.connected /\ after.connected THEN 1
                ELSE IF ObservedChanges(before, after, def) # {} THEN 1
                ELSE 0]_vars

C25_Witness ==
    \E e \in ElemIds :
        /\ elems[e].upgraded
        /\ ~elems[e].connected
        /\ elems[e].renders = 1
        /\ elems[e].content # <<>>

\* C25 as stated: render runs only for an element that is in the document, once
\* when the element is connected and once for each later change of an observed
\* attribute to a different value; a change on an element that is not in the
\* document renders nothing.
C25_RenderOnlyWhenConnected ==
    [][\A e \in ElemIds :
          LET before == elems[e]
              after == elems'[e]
              def == registry'[after.tag]
          IN  after.renders =
                IF ~after.connected \/ def = NoDef THEN 0
                ELSE IF ~before.connected \/ ~before.upgraded THEN 1
                ELSE IF ObservedChanges(before, after, def) # {} THEN 1
                ELSE 0]_vars

(***************************************************************************)
(* The error handling of the exported operations                           *)
(***************************************************************************)
MaxInvocations == 2

\* Each operation by what surrounds its platform call: the tag it logs with,
\* whether a try/catch encloses the call, whether the catch block logs, what it
\* does then, and what the test for a missing element at the top does.
\* DOM helpers: src/QUICK_REFERENCE.md, lines 264-672.
DOMHandling(op) ==
    CASE op \in {"select", "selectAll"} ->
           [tag |-> "[AckerJS DOM]", catches |-> TRUE, logs |-> TRUE,
            then |-> "default", guard |-> "none"]
      [] op = "create" ->
           [tag |-> "[AckerJS DOM]", catches |-> TRUE, logs |-> TRUE,
            then |-> "rethrow", guard |-> "none"]
      [] op \in {"append", "remove", "addClass", "removeClass", "toggleClass", "on",
                 "off", "setAttributes", "removeAttribute", "setStyles", "empty",
                 "matches", "closest"} ->
           [tag |-> "[AckerJS DOM]", catches |-> TRUE, logs |-> TRUE,
            then |-> "default", guard |-> "default"]
      [] op \in {"hasClass", "getAttribute"} ->
           [tag |-> "[AckerJS DOM]", catches |-> FALSE, logs |-> FALSE,
            then |-> "none", guard |-> "default"]
      [] op \in {"getStyles", "clone"} ->
           [tag |-> "[AckerJS DOM]", catches |-> FALSE, logs |-> FALSE,
            then |-> "none", guard |-> "throw"]

\* Format helpers: src/src/format/index.ts, lines 15-282 and 475-482.  isURL
\* catches the exception of new URL(url) and returns false without a console line.
FormatHandling(op) ==
    CASE op \in {"formatDate", "formatDateTime", "formatTime", "formatDateCustom",
                 "formatRelativeTime", "formatNumber", "formatCurrency",
                 "formatPercent"} ->
           [tag |-> "[AckerJS Format]", catches |-> TRUE, logs |-> TRUE,
            then |-> "default", guard |-> "none"]
      [] op = "isURL" ->
           [tag |-> "[AckerJS Format]", catches |-> TRUE, logs |-> FALSE,
            then |-> "default", guard |-> "none"]

\* The asynchronous HTTP helpers: fetchJSON and the functions that pass their
\* call on to it (src/unnamed/part_002, lines 53-213).
AsyncOps == {"fetchJSON", "postJSON", "putJSON", "patchJSON", "deleteJSON",
             "get", "post", "put", "patch", "del"}

\* The helpers that call JSON.stringify(data), themselves or through the
\* function they pass the call on to; the call stands outside any try block
\* (lines 87-139, 176-202).
StringifyOps == {"postJSON", "putJSON", "patchJSON", "post", "put", "patch"}

\* HTTP helpers: src/unnamed/part_002, lines 53-213 and 260-295.  The call of
\* fetch and the reading of the body stand in the try block of fetchJSON for
\* every helper; buildURL calls new URL(baseURL) outside any try block.
HTTPHandling(op) ==
    CASE op \in AsyncOps ->
           [tag |-> "[AckerJS HTTP]", catches |-> TRUE, logs |-> TRUE,
            then |-> "rethrow", guard |-> "none"]
      [] op = "parseURL" ->
           [tag |-> "[AckerJS HTTP]", catches |-> TRUE, logs |-> TRUE,
            then |-> "default", guard |-> "none"]
      [] op = "buildURL" ->
           [tag |-> "[AckerJS HTTP]", catches |-> FALSE, logs |-> FALSE,
            then |-> "none", guard |-> "none"]

\* component: src/docs/lib/dom/component.js, lines 15-24 and 63-68.  A tag name
\* without a hyphen and a tag name already defined each write a line and return.
ComponentHandling(op) ==
    [tag |-> "[AckerJS Component]", catches |-> TRUE, logs |-> TRUE,
     then |-> "default", guard |-> "default"]

DOMOps == {"select", "selectAll", "create", "append", "remove", "addClass",
           "removeClass", "toggleClass", "hasClass", "on", "off", "setAttributes",
           "getAttribute", "removeAttribute", "setStyles", "getStyles", "empty",
           "clone", "matches", "closest"}
FormatOps == {"formatDate", "formatDateTime", "formatTime", "formatDateCustom",
              "formatRelativeTime", "formatNumber", "formatCurrency",
              "formatPercent", "isURL"}
HTTPOps == AsyncOps \cup {"parseURL", "buildURL"}
ComponentOps == {"component"}
ExportedOps == DOMOps \cup FormatOps \cup HTTPOps \cup ComponentOps

Handling(op) ==
    CASE op \in DOMOps -> DOMHandling(op)
      [] op \in FormatOps -> FormatHandling(op)
      [] op \in HTTPOps -> HTTPHandling(op)
      [] op \in ComponentOps -> ComponentHandling(op)

\* Whether the operation's platform call can throw for arguments of the declared
\* types: classList.contains, getAttribute, getComputedStyle and cloneNode of an
\* HTMLElement do not; new URL(baseURL) throws for a string that is no URL.
PlatformCanThrow(op) == op \notin {"hasClass", "getAttribute", "getStyles", "clone"}

\* How an invocation goes:
\*   "none"       the platform call returns;
\*   "invalid"    the element (or handler, or hyphen of the tag name) is missing;
\*   "defined"    component: the tag name is already defined;
\*   "notok"      an HTTP helper: the response has a status outside 200-299;
\*   "platform"   the platform call throws (for an HTTP helper: fetch or
\*                response.json() rejects);
\*   "stringify"  JSON.stringify(data) throws (data with a cycle).
Causes == {"none", "invalid", "defined", "notok", "platform", "stringify"}
PlatformCauses == {"platform", "stringify"}

CanHappen(op, cause) ==
    CASE cause = "none" -> TRUE
      [] cause = "invalid" -> Handling(op).guard # "none"
      [] cause = "defined" -> op \in ComponentOps
      [] cause = "notok" -> op \in AsyncOps
      [] cause = "platform" -> PlatformCanThrow(op)
      [] cause = "stringify" -> op \in StringifyOps

\* What the caller observes of the invocation; for an asynchronous helper
\* "returned" is a promise that resolved, the other kinds a promise that rejected.
\* A response that is not ok makes fetchJSON reject with its own HTTPError, which
\* the catch block passes on without a line (lines 70-72); getStyles and clone
\* throw their own Error for a missing element (lines 584-590, 621-627).
Outcome(op, cause) ==
    CASE cause = "none" ->
           [op |-> op, cause |-> cause, kind |-> "returned", logged |-> FALSE,
            tag |-> "none"]
      [] cause = "invalid" ->
           IF Handling(op).guard = "default"
           THEN [op |-> op, cause |-> cause, kind |-> "default", logged |-> TRUE,
                 tag |-> Handling(op).tag]
           ELSE [op |-> op, cause |-> cause, kind |-> "threw", logged |-> FALSE,
                 tag |-> "none"]
      [] cause = "defined" ->
           [op |-> op, cause |-> cause, kind |-> "default", logged |-> TRUE,
            tag |-> Handling(op).tag]
      [] cause = "notok" ->
           [op |-> op, cause |-> cause, kind |-> "threw", logged |-> FALSE,
            tag |-> "none"]
      [] cause = "platform" ->
           IF Handling(op).catches
           THEN [op |-> op, cause |-> cause, kind |-> Handling(op).then,
                 logged |-> Handling(op).logs,
                 tag |-> IF Handling(op).logs THEN Handling(op).tag ELSE "none"]
           ELSE [op |-> op, cause |-> cause, kind |-> "escaped", logged |-> FALSE,
                 tag |-> "none"]
      [] cause = "stringify" ->
           [op |-> op, cause |-> cause, kind |-> "escaped", logged |-> FALSE,
            tag |-> "none"]

NoOutcome ==
    [op |-> "none", cause |-> "none", kind |-> "none", logged |-> FALSE, tag |-> "none"]

OpInit ==
    /\ inflight = <<>>
    /\ opOutcome = NoOutcome
    /\ console = <<>>

Log(outcome) == IF outcome.logged THEN Append(console, outcome.tag) ELSE console

WithoutCall(calls, i) ==
    [j \in 1..(Len(calls) - 1) |-> IF j < i THEN calls[j] ELSE calls[j + 1]]

\* An exported operation is invoked.  A synchronous operation runs to its end:
\* the caller has its value or its exception, and the console its line.  An
\* asynchronous helper returns a pending promise: nothing is logged yet.  When
\* JSON.stringify(data) throws, fetchJSON is never called: the promise of
\* postJSON, putJSON or patchJSON is rejected as the call returns, and the
\* promise of post, put or patch follows it a turn later.
Invoke(op, cause) ==
    /\ Len(console) + Len(inflight) < MaxInvocations
    /\ CanHappen(op, cause)
    /\ IF op \notin AsyncOps
       THEN /\ opOutcome' = Outcome(op, cause)
            /\ console' = Log(Outcome(op, cause))
            /\ UNCHANGED inflight
       ELSE IF cause = "stringify"
       THEN /\ console' = console
            /\ IF AsyncWrappers(op) = 1
               THEN /\ opOutcome' = Outcome(op, cause)
                    /\ UNCHANGED inflight
               ELSE /\ inflight' = Append(inflight,
                                          [op |-> op, cause |-> cause,
                                           stage |-> "relaying",
                                           relays |-> AsyncWrappers(op) - 1])
                    /\ UNCHANGED opOutcome
       ELSE /\ inflight' = Append(inflight,
                                  [op |-> op, cause |-> cause, stage |-> "fetching",
                                   relays |-> AsyncWrappers(op)])
            /\ UNCHANGED <<opOutcome, console>>
    /\ UNCHANGED <<httpVars, compVars, fmtVars, domVars, urlVars>>

\* A later turn: the promise of fetchJSON settles.  When the platform call threw,
\* the catch block writes its line and rejects in this turn (lines 69-75); the
\* caller of fetchJSON observes the outcome now, the caller of a helper that
\* passed the call on observes it when that helper's promise has followed.
SettleCall(i) ==
    /\ i \in 1..Len(inflight)
    /\ inflight[i].stage = "fetching"
    /\ LET call == inflight[i]
           outcome == Outcome(call.op, call.cause)
       IN  /\ console' = Log(outcome)
           /\ IF call.relays = 0
              THEN /\ opOutcome' = outcome
                   /\ inflight' = WithoutCall(inflight, i)
              ELSE /\ inflight' = [inflight EXCEPT ![i].stage = "relaying"]
                   /\ UNCHANGED opOutcome
    /\ UNCHANGED <<httpVars, compVars, fmtVars, domVars, urlVars>>

\* A later turn: the promise of a helper that passed the call on follows the
\* promise it returned (lines 87-213).
RelayCall(i) ==
    /\ i \in 1..Len(inflight)
    /\ inflight[i].stage = "relaying"
    /\ LET call == inflight[i]
       IN  IF call.relays = 1
           THEN /\ opOutcome' = Outcome(call.op, call.cause)
                /\ inflight' = WithoutCall(inflight, i)
           ELSE /\ inflight' = [inflight EXCEPT ![i].relays = call.relays - 1]
                /\ UNCHANGED opOutcome
    /\ UNCHANGED console
    /\ UNCHANGED <<httpVars, compVars, fmtVars, domVars, urlVars>>

ModuleTags == {"[AckerJS DOM]", "[AckerJS HTTP]", "[AckerJS Format]",
               "[AckerJS Component]"}

\* C5: every exported operation that calls a platform API catches the exception
\* of that call, logs a line with its module tag, and returns a default or
\* re-throws; no platform exception reaches the caller unlogged.
C5_ErrorsHandledUniformly ==
    opOutcome.cause \in PlatformCauses =>
        /\ opOutcome.logged
        /\ opOutcome.tag \in ModuleTags
        /\ opOutcome.kind \in {"default", "rethrow"}

(***************************************************************************)
(* Format: src/src/format/index.ts                                         *)
(***************************************************************************)
MaxLen == 4
MaxMantissa == 2100
MaxExponent == 5

\* String.prototype.toLowerCase on the model's characters.
LowerOf ==
    [ch \in UpperLetters |->
        LowerAlphabet[CHOOSE i \in 1..26 : UpperAlphabet[i] = ch]]
toLowerCase(str) ==
    [i \in 1..Len(str) |-> IF str[i] \in DOMAIN LowerOf THEN LowerOf[str[i]] ELSE str[i]]

\* String.prototype.trim: whitespace is removed from both ends.
RECURSIVE trimStart(_)
trimStart(str) ==
    IF str # <<>> /\ Head(str) \in Whitespace THEN trimStart(Tail(str)) ELSE str
RECURSIVE trimEnd(_)
trimEnd(str) ==
    IF str # <<>> /\ str[Len(str)] \in Whitespace
    THEN trimEnd(SubSeq(str, 1, Len(str) - 1)) ELSE str
trim(str) == trimEnd(trimStart(str))

\* The regular expression classes \w and [\s_-].
IsWordChar(ch) == ch \in LowerLetters \cup UpperLetters \cup Digits \cup {"_"}
IsSeparator(ch) == ch \in Whitespace \cup {"_", "-"}

\* .replace(/[^\w\s-]/g, '')
RemoveNonWord(str) ==
    SelectSeq(str, LAMBDA ch : IsWordChar(ch) \/ ch \in Whitespace \/ ch = "-")

\* .replace(/[\s_-]+/g, '-'): every maximal run of separators becomes one hyphen.
RECURSIVE SkipSeparators(_)
SkipSeparators(str) ==
    IF str # <<>> /\ IsSeparator(Head(str)) THEN SkipSeparators(Tail(str)) ELSE str
RECURSIVE CollapseSeparators(_)
CollapseSeparators(str) ==
    IF str = <<>> THEN <<>>
    ELSE IF IsSeparator(Head(str))
    THEN <<"-">> \o CollapseSeparators(SkipSeparators(str))
    ELSE <<Head(str)>> \o CollapseSeparators(Tail(str))

\* .replace(/^-+|-+$/g, '')
RECURSIVE StripLeadingHyphens(_)
StripLeadingHyphens(str) ==
    IF str # <<>> /\ Head(str) = "-" THEN StripLeadingHyphens(Tail(str)) ELSE str
RECURSIVE StripTrailingHyphens(_)
StripTrailingHyphens(str) ==
    IF str # <<>> /\ str[Len(str)] = "-"
    THEN StripTrailingHyphens(SubSeq(str, 1, Len(str) - 1)) ELSE str

\* slugify whose second replace lacks the + of /[\s_-]+/g.
slugifyNoRuns(str) ==
    StripTrailingHyphens(StripLeadingHyphens(
        [i \in 1..Len(RemoveNonWord(trim(toLowerCase(str)))) |->
            IF IsSeparator(RemoveNonWord(trim(toLowerCase(str)))[i]) THEN "-"
            ELSE RemoveNonWord(trim(toLowerCase(str)))[i]]))

\* slugify, lines 311-318.
slugify(str) ==
    StripTrailingHyphens(StripLeadingHyphens(
        CollapseSeparators(RemoveNonWord(trim(toLowerCase(str))))))

\* The decimal digits of a natural number, as Number.prototype.toString gives them.
DigitChar == <<"0", "1", "2", "3", "4", "5", "6", "7", "8", "9">>
RECURSIVE DigitsOf(_)
DigitsOf(n) ==
    IF n < 10 THEN <<DigitChar[n + 1]>>
    ELSE DigitsOf(n \div 10) \o <<DigitChar[(n % 10) + 1]>>

RECURSIVE Pow(_, _)
Pow(b, e) == IF e = 0 THEN 1 ELSE b * Pow(b, e - 1)

\* Math.floor(Math.log(n) / Math.log(k)) for an integer n >= 1.
RECURSIVE FloorLog(_, _)
FloorLog(n, k) == IF n < k THEN 0 ELSE 1 + FloorLog(n \div k, k)

\* Number.prototype.toFixed(decimals) of the fraction num/den: the digits of the
\* nearest multiple of 10^-decimals, a tie going up, with exactly `decimals`
\* fraction digits.
RECURSIVE PadZeros(_, _)
PadZeros(digits, width) ==
    IF Len(digits) >= width THEN digits ELSE PadZeros(<<"0">> \o digits, width)
toFixed(num, den, decimals) ==
    LET scaled == (2 * num * Pow(10, decimals) + den) \div (2 * den)
        whole == scaled \div Pow(10, decimals)
        frac == scaled % Pow(10, decimals)
    IN  IF decimals = 0 THEN DigitsOf(whole)
        ELSE DigitsOf(whole) \o <<".">> \o PadZeros(DigitsOf(frac), decimals)

\* `${parseFloat(text)}`: the number is printed in its shortest form, without
\* trailing zeros of the fraction and without a bare decimal point.
RECURSIVE DropTrailingZeros(_)
DropTrailingZeros(text) ==
    IF text # <<>> /\ text[Len(text)] = "0"
    THEN DropTrailingZeros(SubSeq(text, 1, Len(text) - 1)) ELSE text
parseFloatToString(text) ==
    IF ~Includes(text, ".") THEN text
    ELSE LET t == DropTrailingZeros(text)
         IN  IF t[Len(t)] = "." THEN SubSeq(t, 1, Len(t) - 1) ELSE t

\* sizes[i] of the code is SizeLabel(i); an index past the array reads undefined.
sizes == <<<<"B","y","t","e","s">>, <<"K","B">>, <<"M","B">>, <<"G","B">>,
           <<"T","B">>, <<"P","B">>>>
k == 1024
SizeLabel(i) ==
    IF i + 1 <= Len(sizes) THEN sizes[i + 1]
    ELSE <<"u","n","d","e","f","i","n","e","d">>

\* formatBytes, lines 293-301.  The number of bytes is m * 1024^e, so that
\* i = e + floor(log_1024 m) and bytes / 1024^i = m / 1024^(i - e).
formatBytes(bytes, decimals) ==
    IF bytes.m = 0 THEN <<"0", " ">> \o SizeLabel(0)
    ELSE LET i == bytes.e + FloorLog(bytes.m, k)
         IN  parseFloatToString(toFixed(bytes.m, Pow(k, i - bytes.e), decimals))
             \o <<" ">> \o SizeLabel(i)

\* truncate, lines 176-179; suffix defaults to '...'.
truncate(str, length, suffix) ==
    IF str = <<>> \/ Len(str) <= length THEN str
    ELSE SubSeq(str, 1, length) \o suffix

RECURSIVE repeat(_, _)
\* String.prototype.repeat.
repeat(str, count) == IF count = 0 THEN <<>> ELSE str \o repeat(str, count - 1)

Max(a, b) == IF a >= b THEN a ELSE b

\* pad that puts the padding first whatever `start` says.
padAtStart(str, length, char, start) ==
    repeat(char, Max(0, length - Len(str))) \o str

\* pad, lines 203-207.
pad(str, length, char, start) ==
    LET padLength == Max(0, length - Len(str))
        padding == repeat(char, padLength)
    IN  IF start THEN padding \o str ELSE str \o padding

\* A number is the decimal n / 10^scale.
Dec(n, scale) == [n |-> n, scale |-> scale]

RECURSIVE GroupThousands(_)
\* The en-US grouping of an integer's digits.
GroupThousands(digits) ==
    IF Len(digits) <= 3 THEN digits
    ELSE GroupThousands(SubSeq(digits, 1, Len(digits) - 3)) \o <<",">>
             \o SubSeq(digits, Len(digits) - 2, Len(digits))

\* new Intl.NumberFormat(undefined, { style: 'percent', minimumFractionDigits:
\* decimals, maximumFractionDigits: decimals }).format(x) in an en-US
\* environment: x * 100 rounded to `decimals` fraction digits, a tie going
\* away from zero, the integer part grouped, then '%'.
IntlPercent(x, decimals) ==
    LET num == x.n * 100
        den == Pow(10, x.scale)
        scaled == (2 * num * Pow(10, decimals) + den) \div (2 * den)
        whole == scaled \div Pow(10, decimals)
        frac == scaled % Pow(10, decimals)
    IN  GroupThousands(DigitsOf(whole))
            \o (IF decimals = 0 THEN <<>>
                ELSE <<".">> \o PadZeros(DigitsOf(frac), decimals))
            \o <<"%">>

\* formatPercent with the two branches of its conditional exchanged.
normalizedValueInverted(value, normalize) ==
    IF normalize THEN Dec(value.n, value.scale + 2) ELSE value

\* formatPercent, line 272: normalize ? value : value / 100.
normalizedValue(value, normalize) ==
    IF normalize THEN value ELSE Dec(value.n, value.scale + 2)

DefaultDecimals == 0
DefaultNormalize == FALSE
\* formatPercent, lines 265-282.
formatPercent(value, decimals, normalize) ==
    IntlPercent(normalizedValue(value, normalize), decimals)

\* escapeHTML, lines 407-413.
htmlEscapes ==
    [ch \in {"&", "<", ">", "\"", "'"} |->
        CASE ch = "&" -> <<"&", "a", "m", "p", ";">>
          [] ch = "<" -> <<"&", "l", "t", ";">>
          [] ch = ">" -> <<"&", "g", "t", ";">>
          [] ch = "\"" -> <<"&", "q", "u", "o", "t", ";">>
          [] ch = "'" -> <<"&", "#", "3", "9", ";">>]

RECURSIVE replaceAll(_, _)
\* str.replace(/[&<>"']/g, char => table[char]).
replaceAll(str, table) ==
    IF str = <<>> THEN <<>>
    ELSE (IF Head(str) \in DOMAIN table THEN table[Head(str)] ELSE <<Head(str)>>)
         \o replaceAll(Tail(str), table)

\* str.replace without the g flag: the first match only.
escapeHTMLFirstMatch(str) ==
    IF \E i \in 1..Len(str) : str[i] \in DOMAIN htmlEscapes
    THEN LET i == CHOOSE i \in 1..Len(str) :
                      /\ str[i] \in DOMAIN htmlEscapes
                      /\ \A j \in 1..(i - 1) : str[j] \notin DOMAIN htmlEscapes
         IN  SubSeq(str, 1, i - 1) \o htmlEscapes[str[i]]
                 \o SubSeq(str, i + 1, Len(str))
    ELSE str

\* escapeHTML, lines 406-415.
escapeHTML(str) == replaceAll(str, htmlEscapes)

RECURSIVE unescapeHTML(_)
\* unescapeHTML, lines 423-432: str.replace(/&(?:amp|lt|gt|quot|#39);/g, ...).
unescapeHTML(str) ==
    IF str = <<>> THEN <<>>
    ELSE IF \E ch \in DOMAIN htmlEscapes : StartsWith(str, htmlEscapes[ch])
    THEN LET ch == CHOOSE c \in DOMAIN htmlEscapes : StartsWith(str, htmlEscapes[c])
         IN  <<ch>> \o unescapeHTML(SubSeq(str, Len(htmlEscapes[ch]) + 1, Len(str)))
    ELSE <<Head(str)>> \o unescapeHTML(Tail(str))

\* String.prototype.toUpperCase, applied to one character.
UpperOf ==
    [ch \in LowerLetters |->
        UpperAlphabet[CHOOSE i \in 1..26 : LowerAlphabet[i] = ch]]
toUpperCase(ch) == IF ch \in DOMAIN UpperOf THEN UpperOf[ch] ELSE ch

\* The class [a-zA-Z0-9] of the pattern on line 331.
IsAlphaNumeric(ch) == ch \in LowerLetters \cup UpperLetters \cup Digits

\* The length of the longest prefix of str without a letter or digit.
RECURSIVE SeparatorRun(_)
SeparatorRun(str) ==
    IF str = <<>> \/ IsAlphaNumeric(Head(str)) THEN 0
    ELSE 1 + SeparatorRun(Tail(str))

\* replace(/[^a-zA-Z0-9]+(.)/g, (_, char) => char.toUpperCase()), line 331: from
\* the left, each run of characters that are not letters or digits is replaced,
\* with the character after it, by that character in upper case.  A run that
\* reaches the end of the string gives up its last character to the group, and
\* a single such character at the end matches nothing.
RECURSIVE replaceSeparators(_)
replaceSeparators(str) ==
    LET run == SeparatorRun(str)
    IN  IF str = <<>> THEN str
        ELSE IF run = 0 THEN <<Head(str)>> \o replaceSeparators(Tail(str))
        ELSE IF run < Len(str)
        THEN <<toUpperCase(str[run + 1])>>
             \o replaceSeparators(SubSeq(str, run + 2, Len(str)))
        ELSE IF run >= 2 THEN <<toUpperCase(str[run])>>
        ELSE str

\* camelCase, lines 328-332.
camelCase(str) == replaceSeparators(toLowerCase(str))

\* pascalCase, lines 342-345: camel.charAt(0).toUpperCase() + camel.slice(1).
pascalCase(str) ==
    LET camel == camelCase(str)
    IN  IF camel = <<>> THEN camel
        ELSE <<toUpperCase(camel[1])>> \o SubSeq(camel, 2, Len(camel))

\* A time difference of 1000 * s + ms milliseconds, 0 <= ms < 1000: the value of
\* date.getTime() - now on line 93, kept in two parts.
Millis(s, ms) == [s |-> s, ms |-> ms]

Abs(n) == IF n < 0 THEN -n ELSE n

\* A rounding that takes halves away from zero.
MathRoundHalfAway(n, d) ==
    IF n >= 0 THEN (2 * n + d) \div (2 * d) ELSE -((2 * (-n) + d) \div (2 * d))

\* Math.round(n / d) for d > 0: the nearest integer, a half going toward
\* +Infinity (Math.round(-0.5) is 0, Math.round(0.5) is 1).
MathRound(n, d) == (2 * n + d) \div (2 * d)

\* Intl.RelativeTimeFormat(locale, { numeric: 'auto' }).format(value, unit), for
\* English: the words of -1, 0 and 1 where the locale data has them, and
\* otherwise 'in N units' or 'N units ago' with the plural for N other than 1.
UnitName ==
    [second |-> <<"s", "e", "c", "o", "n", "d">>,
     minute |-> <<"m", "i", "n", "u", "t", "e">>,
     hour |-> <<"h", "o", "u", "r">>,
     day |-> <<"d", "a", "y">>,
     month |-> <<"m", "o", "n", "t", "h">>,
     year |-> <<"y", "e", "a", "r">>]

rtfFormat(value, unit) ==
    LET name == UnitName[unit]
        plural == IF Abs(value) = 1 THEN name ELSE name \o <<"s">>
    IN  IF value = 0
        THEN IF unit = "second" THEN <<"n", "o", "w">>
             ELSE IF unit = "day" THEN <<"t", "o", "d", "a", "y">>
             ELSE <<"t", "h", "i", "s", " ">> \o name
        ELSE IF Abs(value) = 1 /\ unit = "day"
        THEN IF value = 1 THEN <<"t", "o", "m", "o", "r", "r", "o", "w">>
             ELSE <<"y", "e", "s", "t", "e", "r", "d", "a", "y">>
        ELSE IF Abs(value) = 1 /\ unit \in {"month", "year"}
        THEN (IF value = 1 THEN <<"n", "e", "x", "t", " ">>
              ELSE <<"l", "a", "s", "t", " ">>) \o name
        ELSE IF value > 0
        THEN <<"i", "n", " ">> \o DigitsOf(value) \o <<" ">> \o plural
        ELSE DigitsOf(-value) \o <<" ">> \o plural \o <<" ", "a", "g", "o">>

\* formatRelativeTime, lines 94-113: the value and the unit passed to rtf.format.
relativeTimeCall(diff) ==
    LET diffInSeconds == diff.s + MathRound(diff.ms, 1000)
        diffInMinutes == MathRound(diffInSeconds, 60)
        diffInHours == MathRound(diffInMinutes, 60)
        diffInDays == MathRound(diffInHours, 24)
        diffInMonths == MathRound(diffInDays, 30)
        diffInYears == MathRound(diffInDays, 365)
    IN  IF Abs(diffInYears) >= 1 THEN [value |-> diffInYears, unit |-> "year"]
        ELSE IF Abs(diffInMonths) >= 1 THEN [value |-> diffInMonths, unit |-> "month"]
        ELSE IF Abs(diffInDays) >= 1 THEN [value |-> diffInDays, unit |-> "day"]
        ELSE IF Abs(diffInHours) >= 1 THEN [value |-> diffInHours, unit |-> "hour"]
        ELSE IF Abs(diffInMinutes) >= 1 THEN [value |-> diffInMinutes, unit |-> "minute"]
        ELSE [value |-> diffInSeconds, unit |-> "second"]

\* formatRelativeTime, lines 89-118, for a valid date.
formatRelativeTime(diff) ==
    LET call == relativeTimeCall(diff)
    IN  rtfFormat(call.value, call.unit)

HelloWorld == <<"H","e","l","l","o"," ","W","o","r","l","d","!">>
SlugAlphabet == {"a", "B", "1", " ", "\t", "_", "-", "!"}
RECURSIVE StringsUpTo(_, _)
StringsUpTo(alphabet, n) ==
    IF n = 0 THEN {<<>>}
    ELSE LET shorter == StringsUpTo(alphabet, n - 1)
         IN  shorter \cup {Append(s, ch) : s \in shorter, ch \in alphabet}

SlugInputs == {[fn |-> "slugify", str |-> s] :
                 s \in StringsUpTo(SlugAlphabet, MaxLen) \cup {HelloWorld}}
BytesInputs ==
    {[fn |-> "formatBytes", bytes |-> [m |-> m, e |-> e], decimals |-> d] :
        m \in {n \in 0..MaxMantissa :
                 n <= 2 \/ n % 128 = 0 \/ n \in 1000..1030 \/ n > MaxMantissa - 4},
        e \in 0..MaxExponent, d \in {0, 2}}

DefaultSuffix == <<".", ".", ".">>
TruncateInputs ==
    {[fn |-> "truncate", str |-> str, length |-> n, suffix |-> suffix] :
        str \in StringsUpTo({"a", "b"}, MaxLen), n \in 0..(MaxLen + 1),
        suffix \in {DefaultSuffix, <<"~">>, <<>>}}
PadInputs ==
    {[fn |-> "pad", str |-> str, length |-> n, char |-> <<ch>>, start |-> start] :
        str \in StringsUpTo({"a", "5"}, MaxLen), n \in 0..(MaxLen + 2),
        ch \in {"0", " "}, start \in BOOLEAN}

\* 0.75, 0.5, 50, 0, 1, 0.125, 12.345, 1234.5, 100, 0.005, 2.5 and 99.995.
PercentValues ==
    {Dec(75, 2), Dec(5, 1), Dec(50, 0), Dec(0, 0), Dec(1, 0), Dec(125, 3),
     Dec(12345, 3), Dec(12345, 1), Dec(100, 0), Dec(5, 3), Dec(25, 1),
     Dec(99995, 3)}
\* Calls with one, two and three arguments.
PercentInputs ==
    {[fn |-> "formatPercent", argc |-> 1, value |-> v] : v \in PercentValues}
    \cup {[fn |-> "formatPercent", argc |-> 2, value |-> v, decimals |-> d] :
             v \in PercentValues, d \in 0..2}
    \cup {[fn |-> "formatPercent", argc |-> 3, value |-> v, decimals |-> d,
            normalize |-> b] : v \in PercentValues, d \in 0..2, b \in BOOLEAN}

DivTest == <<"<", "d", "i", "v", ">", "T", "e", "s", "t", "<", "/", "d", "i", "v", ">">>
EscapeAlphabet == {"a", "&", "<", ">", "\"", "'"}
EscapeInputs ==
    {[fn |-> "escapeHTML", str |-> str] :
        str \in StringsUpTo(EscapeAlphabet, MaxLen)
                   \cup {DivTest, <<"&", "l", "t", ";">>, <<"&", "a", "m", "p", ";", "#", "3", "9", ";">>}}

\* Differences from half a second to two years, before and after now, on the
\* second and just below and at the half second after it.
RelativeSeconds ==
    {0, 1, 29, 30, 31, 89, 90, 1770, 1800, 3600, 5400, 41400, 43200, 86400,
     1209600, 1296000, 3888000, 15724800, 15811200, 31536000, 47260800,
     47347200, 63072000}
RelativeTimeInputs ==
    {[fn |-> "formatRelativeTime", diff |-> Millis(sign * sec, ms)] :
        sign \in {-1, 1}, sec \in RelativeSeconds, ms \in {0, 499, 500}}

HelloHyphenWorld == <<"h","e","l","l","o","-","w","o","r","l","d">>
HelloSpaceWorld == <<"H","e","l","l","o"," ","W","o","r","l","d">>
CaseAlphabet == {"a", "B", "1", "-", " "}
CaseInputs ==
    {[fn |-> fn, str |-> str] :
        fn \in {"camelCase", "pascalCase"},
        str \in StringsUpTo(CaseAlphabet, MaxLen)
                   \cup {HelloHyphenWorld, HelloSpaceWorld}}

FmtInit ==
    /\ fmtIn \in SlugInputs \cup BytesInputs \cup TruncateInputs \cup PadInputs
                  \cup PercentInputs \cup EscapeInputs \cup RelativeTimeInputs
                  \cup CaseInputs
    /\ fmtFn = "none"
    /\ fmtOut = <<>>

Slugify ==
    /\ fmtFn = "none" /\ fmtIn.fn = "slugify"
    /\ fmtFn' = "slugify"
    /\ fmtOut' = slugify(fmtIn.str)
    /\ UNCHANGED <<fmtIn, httpVars, compVars, opVars, domVars, urlVars>>

FormatBytes ==
    /\ fmtFn = "none" /\ fmtIn.fn = "formatBytes"
    /\ fmtFn' = "formatBytes"
    /\ fmtOut' = formatBytes(fmtIn.bytes, fmtIn.decimals)
    /\ UNCHANGED <<fmtIn, httpVars, compVars, opVars, domVars, urlVars>>

Truncate ==
    /\ fmtFn = "none" /\ fmtIn.fn = "truncate"
    /\ fmtFn' = "truncate"
    /\ fmtOut' = truncate(fmtIn.str, fmtIn.length, fmtIn.suffix)
    /\ UNCHANGED <<fmtIn, httpVars, compVars, opVars, domVars, urlVars>>

Pad ==
    /\ fmtFn = "none" /\ fmtIn.fn = "pad"
    /\ fmtFn' = "pad"
    /\ fmtOut' = pad(fmtIn.str, fmtIn.length, fmtIn.char, fmtIn.start)
    /\ UNCHANGED <<fmtIn, httpVars, compVars, opVars, domVars, urlVars>>

FormatPercent ==
    /\ fmtFn = "none" /\ fmtIn.fn = "formatPercent"
    /\ fmtFn' = "formatPercent"
    /\ fmtOut' = formatPercent(fmtIn.value,
                               IF fmtIn.argc >= 2 THEN fmtIn.decimals
                               ELSE DefaultDecimals,
                               IF fmtIn.argc >= 3 THEN fmtIn.normalize
                               ELSE DefaultNormalize)
    /\ UNCHANGED <<fmtIn, httpVars, compVars, opVars, domVars, urlVars>>

EscapeHTML ==
    /\ fmtFn = "none" /\ fmtIn.fn = "escapeHTML"
    /\ fmtFn' = "escapeHTML"
    /\ fmtOut' = escapeHTML(fmtIn.str)
    /\ UNCHANGED <<fmtIn, httpVars, compVars, opVars, domVars, urlVars>>

FormatRelativeTime ==
    /\ fmtFn = "none" /\ fmtIn.fn = "formatRelativeTime"
    /\ fmtFn' = "formatRelativeTime"
    /\ fmtOut' = formatRelativeTime(fmtIn.diff)
    /\ UNCHANGED <<fmtIn, httpVars, compVars, opVars, domVars, urlVars>>

CamelCase ==
    /\ fmtFn = "none" /\ fmtIn.fn = "camelCase"
    /\ fmtFn' = "camelCase"
    /\ fmtOut' = camelCase(fmtIn.str)
    /\ UNCHANGED <<fmtIn, httpVars, compVars, opVars, domVars, urlVars>>

PascalCase ==
    /\ fmtFn = "none" /\ fmtIn.fn = "pascalCase"
    /\ fmtFn' = "pascalCase"
    /\ fmtOut' = pascalCase(fmtIn.str)
    /\ UNCHANGED <<fmtIn, httpVars, compVars, opVars, domVars, urlVars>>

\* C9: with the default two decimals, formatBytes(1024^i) is "1.00 " followed
\* by the i-th label, for i in 1..5.
C9_PowersOf1024HaveTwoDecimals ==
    (fmtFn = "formatBytes" /\ fmtIn.decimals = 2 /\ fmtIn.bytes.m = 1
       /\ fmtIn.bytes.e \in 1..5) =>
        fmtOut = <<"1", ".", "0", "0", " ">> \o SizeLabel(fmtIn.bytes.e)

\* The letters and digits of a string, in order.
AlphaNumerics(str) ==
    SelectSeq(str, LAMBDA ch : ch \in LowerLetters \cup UpperLetters \cup Digits)

\* C10: slugify returns lowercase letters, digits and hyphens only, with no
\* hyphen at either end and no two hyphens side by side; the letters and digits
\* of the input appear lowercased in their order; slugify("Hello World!") is
\* "hello-world".
C10_SlugifyShape ==
    fmtFn = "slugify" =>
        /\ \A i \in 1..Len(fmtOut) : fmtOut[i] \in LowerLetters \cup Digits \cup {"-"}
        /\ fmtOut # <<>> => (fmtOut[1] # "-" /\ fmtOut[Len(fmtOut)] # "-")
        /\ \A i \in 1..(Len(fmtOut) - 1) : ~(fmtOut[i] = "-" /\ fmtOut[i + 1] = "-")
        /\ AlphaNumerics(fmtOut) = toLowerCase(AlphaNumerics(fmtIn.str))
        /\ fmtIn.str = HelloWorld =>
             fmtOut = <<"h","e","l","l","o","-","w","o","r","l","d">>

C10_Witness ==
    /\ fmtFn = "slugify"
    /\ fmtIn.str = <<" ", "B", "_", "-">>
    /\ fmtOut = <<"b">>

\* C15: truncate returns a string of at most `length` characters.
C15_TruncateWithinLength ==
    fmtFn = "truncate" => Len(fmtOut) <= fmtIn.length

\* C16: pad returns max(str.length, length) characters: str, unaltered, after
\* (start) or before (not start) copies of char; a length below str.length
\* returns str.
C16_PadShape ==
    fmtFn = "pad" =>
        LET str == fmtIn.str
            n == Len(fmtOut) - Len(str)
        IN  /\ Len(fmtOut) = Max(Len(str), fmtIn.length)
            /\ fmtIn.start =>
                   /\ SubSeq(fmtOut, n + 1, Len(fmtOut)) = str
                   /\ \A i \in 1..n : fmtOut[i] = fmtIn.char[1]
            /\ ~fmtIn.start =>
                   /\ SubSeq(fmtOut, 1, Len(str)) = str
                   /\ \A i \in (Len(str) + 1)..Len(fmtOut) : fmtOut[i] = fmtIn.char[1]
            /\ fmtIn.length < Len(str) => fmtOut = str

C16_Witness ==
    /\ fmtFn = "pad"
    /\ fmtIn.str = <<"5">> /\ fmtIn.length = 3 /\ fmtIn.char = <<"0">>
    /\ ~fmtIn.start
    /\ fmtOut = <<"5", "0", "0">>

RECURSIVE DigitsValue(_)
\* The integer written by the digits of a text, other characters skipped.
DigitsValue(text) ==
    IF text = <<>> THEN 0
    ELSE IF text[Len(text)] \in Digits
    THEN 10 * DigitsValue(SubSeq(text, 1, Len(text) - 1))
             + (CHOOSE d \in 0..9 : DigitChar[d + 1] = text[Len(text)])
    ELSE DigitsValue(SubSeq(text, 1, Len(text) - 1))
\* The number of digits after the decimal point of a text.
FractionDigits(text) ==
    IF IndexOf(text, ".") = 0 THEN 0
    ELSE Cardinality({i \in (IndexOf(text, ".") + 1)..Len(text) : text[i] \in Digits})
\* The text is num/den written with `decimals` fraction digits, rounded to
\* the nearest, and a percent sign.
RendersPercent(text, num, den, decimals) ==
    LET shown == DigitsValue(text)
        diff == shown * den - num * Pow(10, decimals)
    IN  /\ text # <<>> /\ text[Len(text)] = "%"
        /\ FractionDigits(text) = decimals
        /\ 2 * diff <= den /\ 2 * diff >= -den

\* C17: called with a value only, formatPercent renders value x 100 and a
\* percent sign; formatPercent(0.75) is "75%".
C17_FractionRendersAsPercent ==
    (fmtFn = "formatPercent" /\ fmtIn.argc = 1) =>
        /\ RendersPercent(fmtOut, fmtIn.value.n * 100, Pow(10, fmtIn.value.scale), 0)
        /\ fmtIn.value = Dec(75, 2) => fmtOut = <<"7", "5", "%">>

\* C18: with normalize = true formatPercent renders value x 100, with
\* normalize = false value itself, in both cases with exactly `decimals`
\* fraction digits; formatPercent(0.5, 0, true) is "50%" and
\* formatPercent(50, 2) is "50.00%".
C18_NormalizeFlagFollowed ==
    (fmtFn = "formatPercent" /\ fmtIn.argc >= 2) =>
        LET normalize == IF fmtIn.argc >= 3 THEN fmtIn.normalize ELSE FALSE
            v == fmtIn.value
        IN  /\ normalize =>
                   RendersPercent(fmtOut, v.n * 100, Pow(10, v.scale), fmtIn.decimals)
            /\ ~normalize =>
                   RendersPercent(fmtOut, v.n, Pow(10, v.scale), fmtIn.decimals)
            /\ (normalize /\ v = Dec(5, 1) /\ fmtIn.decimals = 0) =>
                   fmtOut = <<"5", "0", "%">>
            /\ (fmtIn.argc = 2 /\ v = Dec(50, 0) /\ fmtIn.decimals = 2) =>
                   fmtOut = <<"5", "0", ".", "0", "0", "%">>

C18_Witness ==
    /\ fmtFn = "formatPercent"
    /\ fmtIn.argc = 3 /\ fmtIn.normalize
    /\ fmtIn.value = Dec(12345, 3) /\ fmtIn.decimals = 1
    /\ fmtOut = <<"1", ",", "2", "3", "4", ".", "5", "%">>

RECURSIVE WithoutEntities(_)
\* A text with each entity that begins at an '&' taken out.
WithoutEntities(text) ==
    IF text = <<>> THEN <<>>
    ELSE IF \E ch \in DOMAIN htmlEscapes : StartsWith(text, htmlEscapes[ch])
    THEN LET ch == CHOOSE c \in DOMAIN htmlEscapes : StartsWith(text, htmlEscapes[c])
         IN  WithoutEntities(SubSeq(text, Len(htmlEscapes[ch]) + 1, Len(text)))
    ELSE <<Head(text)>> \o WithoutEntities(Tail(text))

\* C19: the text escapeHTML returns holds none of < > " and ', each of its &
\* begins one of &amp; &lt; &gt; &quot; &#39;, and the other characters of
\* the input are kept, unchanged and in order.
C19_EscapeHTMLShape ==
    fmtFn = "escapeHTML" =>
        /\ \A i \in 1..Len(fmtOut) : fmtOut[i] \notin {"<", ">", "\"", "'"}
        /\ \A i \in 1..Len(fmtOut) :
               fmtOut[i] = "&" =>
                   \E ch \in DOMAIN htmlEscapes :
                       StartsWith(SubSeq(fmtOut, i, Len(fmtOut)), htmlEscapes[ch])
        /\ WithoutEntities(fmtOut)
               = SelectSeq(fmtIn.str, LAMBDA ch : ch \notin DOMAIN htmlEscapes)
        /\ unescapeHTML(fmtOut) = fmtIn.str

C19_Witness ==
    /\ fmtFn = "escapeHTML"
    /\ fmtIn.str = DivTest
    /\ fmtOut = <<"&", "l", "t", ";", "d", "i", "v", "&", "g", "t", ";", "T", "e", "s", "t", "&", "l", "t", ";", "/", "d", "i", "v", "&", "g", "t", ";">>

\* The integer nearest to n / d, the upper one of two that are equally near.
Nearest(n, d) ==
    CHOOSE q \in {n \div d, n \div d + 1} :
        2 * q * d - d <= 2 * n /\ 2 * n < 2 * q * d + d

\* The units from the largest, and for each the rounded difference by the
\* cascade seconds, minutes, hours, days, then months and years from days.
UnitOrder == <<"year", "month", "day", "hour", "minute">>
Cascade(diff) ==
    LET seconds == diff.s + Nearest(diff.ms, 1000)
        minutes == Nearest(seconds, 60)
        hours == Nearest(minutes, 60)
        days == Nearest(hours, 24)
    IN  [second |-> seconds, minute |-> minutes, hour |-> hours, day |-> days,
         month |-> Nearest(days, 30), year |-> Nearest(days, 365)]

\* C23: formatRelativeTime rounds the difference in a cascade and reports the
\* first of year, month, day, hour and minute whose rounded value is at least 1
\* in magnitude, with that value, and the rounded seconds when there is none;
\* one hour ago is '1 hour ago' and 24 hours ago is 'yesterday'.
C23_CascadedRounding ==
    fmtFn = "formatRelativeTime" =>
        LET rounded == Cascade(fmtIn.diff)
            large == {i \in 1..Len(UnitOrder) : Abs(rounded[UnitOrder[i]]) >= 1}
            unit == IF large = {} THEN "second"
                    ELSE UnitOrder[CHOOSE i \in large : \A j \in large : i <= j]
        IN  /\ fmtOut = rtfFormat(rounded[unit], unit)
            /\ fmtIn.diff = Millis(-3600, 0) =>
                   fmtOut = <<"1", " ", "h", "o", "u", "r", " ", "a", "g", "o">>
            /\ fmtIn.diff = Millis(-86400, 0) =>
                   fmtOut = <<"y", "e", "s", "t", "e", "r", "d", "a", "y">>

C23_Witness ==
    /\ fmtFn = "formatRelativeTime"
    /\ fmtIn.diff = Millis(1770, 0)
    /\ fmtOut = <<"i", "n", " ", "1", " ", "h", "o", "u", "r">>

\* The words of a string: its maximal runs of letters and digits, in order.
RECURSIVE Words(_)
Words(str) ==
    IF str = <<>> THEN <<>>
    ELSE IF ~IsAlphaNumeric(Head(str)) THEN Words(Tail(str))
    ELSE LET n == CHOOSE m \in 1..Len(str) :
                     /\ \A i \in 1..m : IsAlphaNumeric(str[i])
                     /\ m = Len(str) \/ ~IsAlphaNumeric(str[m + 1])
         IN  <<SubSeq(str, 1, n)>> \o Words(SubSeq(str, n + 1, Len(str)))

\* A word with its first letter in upper case and the rest in lower case.
Capitalized(word) ==
    <<toUpperCase(toLowerCase(word)[1])>> \o SubSeq(toLowerCase(word), 2, Len(word))

RECURSIVE JoinCapitalized(_)
JoinCapitalized(words) ==
    IF words = <<>> THEN <<>>
    ELSE Capitalized(Head(words)) \o JoinCapitalized(Tail(words))

\* The first word in lower case, then each later word capitalized.
CamelOfWords(str) ==
    LET words == Words(str)
    IN  toLowerCase(Head(words)) \o JoinCapitalized(Tail(words))

\* C24: for an input with at least one letter or digit, camelCase returns
\* letters and digits only, not starting with an uppercase letter: the first
\* word lowercased and each later word capitalized, 'helloWorld' for
\* 'hello-world' and for 'Hello World'; pascalCase returns the same string with
\* its first character in upper case.
C24_CamelCaseOfWords ==
    (fmtFn \in {"camelCase", "pascalCase"}
       /\ \E i \in 1..Len(fmtIn.str) : IsAlphaNumeric(fmtIn.str[i])) =>
        LET camel == CamelOfWords(fmtIn.str)
        IN  /\ \A i \in 1..Len(fmtOut) : IsAlphaNumeric(fmtOut[i])
            /\ fmtFn = "camelCase" =>
                  /\ fmtOut = camel
                  /\ fmtOut[1] \notin UpperLetters
                  /\ fmtIn.str \in {HelloHyphenWorld, HelloSpaceWorld} =>
                        fmtOut = <<"h","e","l","l","o","W","o","r","l","d">>
            /\ fmtFn = "pascalCase" =>
                  fmtOut = <<toUpperCase(camel[1])>> \o SubSeq(camel, 2, Len(camel))

(***************************************************************************)
(* DOM helpers: src/QUICK_REFERENCE.md, lines 264-672                      *)
(***************************************************************************)
MaxDomCalls == 3

\* JavaScript values the helpers take and return.
Null == [null |-> TRUE]
Bool(b) == [bool |-> b]
Str(s) == [str |-> s]
Ref(id) == [el |-> id]
\* !x for an element or handler argument.
Falsy(x) == x \in {Null, Undefined}

DomIds == {"box", "item"}
ClassNames == {"a"}
ClassTokens == {"a", ""}
Selectors == {".a", "["}
Events == {"click"}
Handlers == {[handler |-> "h"]}
AttributeObjects == {[id |-> "v"]}
AttributeNames == {"id"}
StyleObjects == {[color |-> "red"]}
ElementArgs == {Ref(id) : id \in DomIds} \cup {Null, Undefined}

NoLine == "none"
\* What a call did: the document afterwards, whether it returned or threw,
\* the value returned or thrown, and the console.error line it wrote.
Returns(d, value, line) ==
    [dom |-> d, kind |-> "returned", value |-> value, log |-> line]
Throws(d, error) ==
    [dom |-> d, kind |-> "threw", value |-> error, log |-> NoLine]

\* ---- the platform's document ----
Node(d, id) == d.nodes[id]
WithNode(d, id, node) == [d EXCEPT !.nodes[id] = node]

RECURSIVE Preorder(_, _)
\* The elements under the given roots, in document order.
Preorder(d, ids) ==
    IF ids = <<>> THEN <<>>
    ELSE <<Head(ids)>> \o Preorder(d, Node(d, Head(ids)).children)
                       \o Preorder(d, Tail(ids))

InSeq(x, s) == \E i \in 1..Len(s) : s[i] = x
Without(s, x) == SelectSeq(s, LAMBDA y : y # x)

\* A selector the platform parses; "[" is a syntax error.
SelectorValid(selector) == selector # "["
\* element.matches(selector) for a valid class selector.
ElementMatches(d, id, selector) ==
    \E cls \in Node(d, id).classes : selector = "." \o cls

\* The element is taken out of its parent, or out of the document.
Detach(d, id) ==
    [inDocument |-> Without(d.inDocument, id),
     nodes |-> [n \in DomIds |->
                  [d.nodes[n] EXCEPT !.children = Without(d.nodes[n].children, id)]]]

\* parent.appendChild(child) throws a HierarchyRequestError when child is
\* parent or one of its ancestors.
HierarchyError(d, parent, child) == InSeq(parent, Preorder(d, <<child>>))
appendChild(d, parent, child) ==
    LET t == Detach(d, child)
    IN  WithNode(t, parent,
                 [Node(t, parent) EXCEPT !.children = Append(@, child)])

ParentOf(d, id) ==
    IF \E p \in DomIds : InSeq(id, Node(d, p).children)
    THEN Ref(CHOOSE p \in DomIds : InSeq(id, Node(d, p).children))
    ELSE Null

RECURSIVE closestFrom(_, _, _)
\* element.closest(selector): the element or its nearest matching ancestor.
closestFrom(d, id, selector) ==
    IF ElementMatches(d, id, selector) THEN Ref(id)
    ELSE IF ParentOf(d, id) = Null THEN Null
    ELSE closestFrom(d, ParentOf(d, id).el, selector)

RECURSIVE cloneNode(_, _, _)
\* element.cloneNode(deep): a copy without listeners, with copies of the
\* children when deep.
cloneNode(d, id, deep) ==
    [classes |-> Node(d, id).classes,
     attrs |-> Node(d, id).attrs,
     style |-> Node(d, id).style,
     children |-> IF deep
                  THEN [i \in 1..Len(Node(d, id).children) |->
                          cloneNode(d, Node(d, id).children[i], deep)]
                  ELSE <<>>]

\* classList.add, remove and toggle throw a SyntaxError for an empty token.
TokensValid(classes) == \A i \in 1..Len(classes) : classes[i] # ""
TokenSet(classes) == {classes[i] : i \in 1..Len(classes)}

\* ---- the helpers ----
select(d, selector) ==
    IF ~SelectorValid(selector)
    THEN Returns(d, Null, "[AckerJS DOM] Invalid selector")
    ELSE LET found == SelectSeq(Preorder(d, d.inDocument),
                                LAMBDA id : ElementMatches(d, id, selector))
         IN  Returns(d, IF found = <<>> THEN Null ELSE Ref(Head(found)), NoLine)

selectAll(d, selector) ==
    IF ~SelectorValid(selector)
    THEN Returns(d, [array |-> <<>>], "[AckerJS DOM] Invalid selector")
    ELSE LET found == SelectSeq(Preorder(d, d.inDocument),
                                LAMBDA id : ElementMatches(d, id, selector))
         IN  Returns(d, [array |-> [i \in 1..Len(found) |-> Ref(found[i])]], NoLine)

append(d, parent, child) ==
    IF Falsy(parent) \/ Falsy(child)
    THEN Returns(d, Undefined, "[AckerJS DOM] Invalid parent or child element for append")
    ELSE IF HierarchyError(d, parent.el, child.el)
    THEN Returns(d, Undefined, "[AckerJS DOM] Error appending child")
    ELSE Returns(appendChild(d, parent.el, child.el), Undefined, NoLine)

remove(d, element) ==
    IF Falsy(element)
    THEN Returns(d, Undefined, "[AckerJS DOM] Invalid element for removal")
    ELSE Returns(Detach(d, element.el), Undefined, NoLine)

addClass(d, element, classes) ==
    IF Falsy(element)
    THEN Returns(d, Undefined, "[AckerJS DOM] Invalid element for addClass")
    ELSE IF ~TokensValid(classes)
    THEN Returns(d, Undefined, "[AckerJS DOM] Error adding classes")
    ELSE Returns(WithNode(d, element.el,
                          [Node(d, element.el) EXCEPT
                              !.classes = @ \cup TokenSet(classes)]),
                 Undefined, NoLine)

removeClass(d, element, classes) ==
    IF Falsy(element)
    THEN Returns(d, Undefined, "[AckerJS DOM] Invalid element for removeClass")
    ELSE IF ~TokensValid(classes)
    THEN Returns(d, Undefined, "[AckerJS DOM] Error removing classes")
    ELSE Returns(WithNode(d, element.el,
                          [Node(d, element.el) EXCEPT
                              !.classes = @ \ TokenSet(classes)]),
                 Undefined, NoLine)

toggleClass(d, element, className) ==
    IF Falsy(element)
    THEN Returns(d, Bool(FALSE), "[AckerJS DOM] Invalid element for toggleClass")
    ELSE IF className = ""
    THEN Returns(d, Bool(FALSE), "[AckerJS DOM] Error toggling class")
    ELSE IF className \in Node(d, element.el).classes
    THEN Returns(WithNode(d, element.el,
                          [Node(d, element.el) EXCEPT !.classes = @ \ {className}]),
                 Bool(FALSE), NoLine)
    ELSE Returns(WithNode(d, element.el,
                          [Node(d, element.el) EXCEPT !.classes = @ \cup {className}]),
                 Bool(TRUE), NoLine)

\* hasClass without its guard: reading classList of null is a TypeError.
hasClassNoGuard(d, element, className) ==
    IF Falsy(element)
    THEN Throws(d, [error |-> "TypeError"])
    ELSE Returns(d, Bool(className \in Node(d, element.el).classes), NoLine)

hasClass(d, element, className) ==
    IF Falsy(element)
    THEN Returns(d, Bool(FALSE), "[AckerJS DOM] Invalid element for hasClass")
    ELSE Returns(d, Bool(className \in Node(d, element.el).classes), NoLine)

on(d, element, event, handler) ==
    IF Falsy(element) \/ Falsy(handler)
    THEN Returns(d, Undefined,
                 "[AckerJS DOM] Invalid element or handler for event listener")
    ELSE Returns(WithNode(d, element.el,
                          [Node(d, element.el) EXCEPT
                              !.listeners = @ \cup {<<event, handler>>}]),
                 Undefined, NoLine)

off(d, element, event, handler) ==
    IF Falsy(element) \/ Falsy(handler)
    THEN Returns(d, Undefined,
                 "[AckerJS DOM] Invalid element or handler for removing event listener")
    ELSE Returns(WithNode(d, element.el,
                          [Node(d, element.el) EXCEPT
                              !.listeners = @ \ {<<event, handler>>}]),
                 Undefined, NoLine)

setAttributes(d, element, attributes) ==
    IF Falsy(element)
    THEN Returns(d, Undefined, "[AckerJS DOM] Invalid element for setAttributes")
    ELSE Returns(WithNode(d, element.el,
                          [Node(d, element.el) EXCEPT !.attrs = Merge(@, attributes)]),
                 Undefined, NoLine)

getAttribute(d, element, attribute) ==
    IF Falsy(element)
    THEN Returns(d, Null, "[AckerJS DOM] Invalid element for getAttribute")
    ELSE Returns(d, IF attribute \in DOMAIN Node(d, element.el).attrs
                    THEN Str(Node(d, element.el).attrs[attribute])
                    ELSE Null,
                 NoLine)

removeAttribute(d, element, attribute) ==
    IF Falsy(element)
    THEN Returns(d, Undefined, "[AckerJS DOM] Invalid element for removeAttribute")
    ELSE Returns(WithNode(d, element.el,
                          [Node(d, element.el) EXCEPT
                              !.attrs = [n \in (DOMAIN @) \ {attribute} |-> @[n]]]),
                 Undefined, NoLine)

setStyles(d, element, styles) ==
    IF Falsy(element)
    THEN Returns(d, Undefined, "[AckerJS DOM] Invalid element for setStyles")
    ELSE Returns(WithNode(d, element.el,
                          [Node(d, element.el) EXCEPT !.style = Merge(@, styles)]),
                 Undefined, NoLine)

getStyles(d, element) ==
    IF Falsy(element)
    THEN Throws(d, [error |-> "Error",
                    message |-> "[AckerJS DOM] Invalid element for getStyles"])
    ELSE Returns(d, [computed |-> Node(d, element.el).style], NoLine)

empty(d, element) ==
    IF Falsy(element)
    THEN Returns(d, Undefined, "[AckerJS DOM] Invalid element for empty")
    ELSE Returns(WithNode(d, element.el,
                          [Node(d, element.el) EXCEPT !.children = <<>>]),
                 Undefined, NoLine)

clone(d, element, deep) ==
    IF Falsy(element)
    THEN Throws(d, [error |-> "Error",
                    message |-> "[AckerJS DOM] Invalid element for clone"])
    ELSE Returns(d, [node |-> cloneNode(d, element.el, deep)], NoLine)

matches(d, element, selector) ==
    IF Falsy(element)
    THEN Returns(d, Bool(FALSE), "[AckerJS DOM] Invalid element for matches")
    ELSE IF ~SelectorValid(selector)
    THEN Returns(d, Bool(FALSE), "[AckerJS DOM] Invalid selector")
    ELSE Returns(d, Bool(ElementMatches(d, element.el, selector)), NoLine)

closest(d, element, selector) ==
    IF Falsy(element)
    THEN Returns(d, Null, "[AckerJS DOM] Invalid element for closest")
    ELSE IF ~SelectorValid(selector)
    THEN Returns(d, Null, "[AckerJS DOM] Invalid selector")
    ELSE Returns(d, closestFrom(d, element.el, selector), NoLine)

\* ---- calls ----
DomInit ==
    /\ dom = [inDocument |-> <<"box">>,
              nodes |-> [id \in DomIds |->
                           [classes |-> {}, attrs |-> EmptyObject,
                            style |-> EmptyObject, listeners |-> {},
                            children |-> IF id = "box" THEN <<"item">> ELSE <<>>]]]
    /\ domCall = [fn |-> "none"]
    /\ domOut = [kind |-> "none"]
    /\ domCalls = 0

\* A helper is called and runs to its return or throw.
DomStep(call, r) ==
    /\ domCalls < MaxDomCalls
    /\ dom' = r.dom
    /\ domCall' = call
    /\ domOut' = [kind |-> r.kind, value |-> r.value, log |-> r.log]
    /\ domCalls' = domCalls + 1
    /\ UNCHANGED <<httpVars, compVars, opVars, fmtVars, urlVars>>

CallSelect ==
    \E s \in Selectors : DomStep([fn |-> "select", selector |-> s], select(dom, s))
CallSelectAll ==
    \E s \in Selectors :
        DomStep([fn |-> "selectAll", selector |-> s], selectAll(dom, s))
CallAppend ==
    \E p \in ElementArgs, c \in ElementArgs :
        DomStep([fn |-> "append", element |-> p, child |-> c], append(dom, p, c))
CallRemove ==
    \E e \in ElementArgs : DomStep([fn |-> "remove", element |-> e], remove(dom, e))
CallAddClass ==
    \E e \in ElementArgs, t \in ClassTokens :
        DomStep([fn |-> "addClass", element |-> e, classes |-> <<t>>],
                addClass(dom, e, <<t>>))
CallRemoveClass ==
    \E e \in ElementArgs, t \in ClassTokens :
        DomStep([fn |-> "removeClass", element |-> e, classes |-> <<t>>],
                removeClass(dom, e, <<t>>))
CallToggleClass ==
    \E e \in ElementArgs, t \in ClassTokens :
        DomStep([fn |-> "toggleClass", element |-> e, className |-> t],
                toggleClass(dom, e, t))
CallHasClass ==
    \E e \in ElementArgs, t \in ClassTokens :
        DomStep([fn |-> "hasClass", element |-> e, className |-> t],
                hasClass(dom, e, t))
CallOn ==
    \E e \in ElementArgs, ev \in Events, h \in Handlers \cup {Null} :
        DomStep([fn |-> "on", element |-> e, event |-> ev, handler |-> h],
                on(dom, e, ev, h))
CallOff ==
    \E e \in ElementArgs, ev \in Events, h \in Handlers \cup {Null} :
        DomStep([fn |-> "off", element |-> e, event |-> ev, handler |-> h],
                off(dom, e, ev, h))
CallSetAttributes ==
    \E e \in ElementArgs, a \in AttributeObjects :
        DomStep([fn |-> "setAttributes", element |-> e, attributes |-> a],
                setAttributes(dom, e, a))
CallGetAttribute ==
    \E e \in ElementArgs, n \in AttributeNames :
        DomStep([fn |-> "getAttribute", element |-> e, attribute |-> n],
                getAttribute(dom, e, n))
CallRemoveAttribute ==
    \E e \in ElementArgs, n \in AttributeNames :
        DomStep([fn |-> "removeAttribute", element |-> e, attribute |-> n],
                removeAttribute(dom, e, n))
CallSetStyles ==
    \E e \in ElementArgs, s \in StyleObjects :
        DomStep([fn |-> "setStyles", element |-> e, styles |-> s],
                setStyles(dom, e, s))
CallGetStyles ==
    \E e \in ElementArgs :
        DomStep([fn |-> "getStyles", element |-> e], getStyles(dom, e))
CallEmpty ==
    \E e \in ElementArgs : DomStep([fn |-> "empty", element |-> e], empty(dom, e))
CallClone ==
    \E e \in ElementArgs, deep \in BOOLEAN :
        DomStep([fn |-> "clone", element |-> e, deep |-> deep], clone(dom, e, deep))
CallMatches ==
    \E e \in ElementArgs, s \in Selectors :
        DomStep([fn |-> "matches", element |-> e, selector |-> s],
                matches(dom, e, s))
CallClosest ==
    \E e \in ElementArgs, s \in Selectors :
        DomStep([fn |-> "closest", element |-> e, selector |-> s],
                closest(dom, e, s))

\* The helpers that take an element, by what they return.
VoidHelpers == {"append", "remove", "addClass", "removeClass", "on", "off",
                "setAttributes", "removeAttribute", "setStyles", "empty"}
BooleanHelpers == {"toggleClass", "hasClass", "matches"}
NullableHelpers == {"getAttribute", "closest"}
ThrowingHelpers == {"getStyles", "clone"}
ElementHelpers ==
    VoidHelpers \cup BooleanHelpers \cup NullableHelpers \cup ThrowingHelpers

\* The call was handed null or undefined where it takes an element.
NullElementCall(call) ==
    /\ call.fn \in ElementHelpers
    /\ \/ Falsy(call.element)
       \/ call.fn = "append" /\ Falsy(call.child)

\* C11: a DOM helper handed a null or undefined element changes no element
\* and registers no listener; the void helpers return, toggleClass, hasClass
\* and matches return false, getAttribute and closest return null, and only
\* getStyles and clone throw an Error.  select and selectAll handed an invalid
\* selector return null and an empty array without throwing.
C11_NullElementHandled ==
    /\ [](NullElementCall(domCall) =>
            /\ domCall.fn \in VoidHelpers =>
                 domOut.kind = "returned" /\ domOut.value = Undefined
            /\ domCall.fn \in BooleanHelpers =>
                 domOut.kind = "returned" /\ domOut.value = Bool(FALSE)
            /\ domCall.fn \in NullableHelpers =>
                 domOut.kind = "returned" /\ domOut.value = Null
            /\ domCall.fn \in ThrowingHelpers =>
                 domOut.kind = "threw" /\ domOut.value.error = "Error")
    /\ []((domCall.fn \in {"select", "selectAll"} /\ ~SelectorValid(domCall.selector)) =>
            /\ domOut.kind = "returned"
            /\ domCall.fn = "select" => domOut.value = Null
            /\ domCall.fn = "selectAll" => domOut.value = [array |-> <<>>])
    /\ [][NullElementCall(domCall') => dom' = dom]_vars

C11_Witness ==
    /\ domCall.fn = "on"
    /\ domCall.element = Null
    /\ domCall.handler \in Handlers
    /\ domOut.kind = "returned"
    /\ domOut.value = Undefined
    /\ dom.nodes["box"].listeners # {}
    /\ dom.nodes["item"].classes = {"a"}

(***************************************************************************)
(* buildURL: src/unnamed/part_002, lines 260-273                           *)
(***************************************************************************)
MaxParams == 2

Num(n) == [num |-> n]
Arr(elements) == [array |-> elements]
IsArray(value) == "array" \in DOMAIN value

\* String(value) for the values a parameter holds.
JSString(value) ==
    CASE "str" \in DOMAIN value -> value.str
      [] "num" \in DOMAIN value -> DigitsOf(value.num)
      [] "bool" \in DOMAIN value ->
            IF value.bool THEN <<"t","r","u","e">> ELSE <<"f","a","l","s","e">>
      [] value = Null -> <<"n","u","l","l">>
      [] value = Undefined -> <<"u","n","d","e","f","i","n","e","d">>

RECURSIVE Split(_, _)
Split(str, ch) ==
    IF IndexOf(str, ch) = 0 THEN <<str>>
    ELSE <<SubSeq(str, 1, IndexOf(str, ch) - 1)>>
             \o Split(SubSeq(str, IndexOf(str, ch) + 1, Len(str)), ch)

\* application/x-www-form-urlencoded, as URLSearchParams writes and reads it.
FormSafe == LowerLetters \cup UpperLetters \cup Digits \cup {"*", "-", ".", "_"}
PercentCode ==
    [ch \in {"&", "=", "+", "#", "?", "/", ","} |->
        CASE ch = "&" -> <<"%", "2", "6">>
          [] ch = "=" -> <<"%", "3", "D">>
          [] ch = "+" -> <<"%", "2", "B">>
          [] ch = "#" -> <<"%", "2", "3">>
          [] ch = "?" -> <<"%", "3", "F">>
          [] ch = "/" -> <<"%", "2", "F">>
          [] ch = "," -> <<"%", "2", "C">>]

RECURSIVE FormEncode(_)
FormEncode(str) ==
    IF str = <<>> THEN <<>>
    ELSE (CASE Head(str) \in FormSafe -> <<Head(str)>>
            [] Head(str) = " " -> <<"+">>
            [] OTHER -> PercentCode[Head(str)])
         \o FormEncode(Tail(str))

RECURSIVE FormDecode(_)
FormDecode(str) ==
    IF str = <<>> THEN <<>>
    ELSE IF Head(str) = "+" THEN <<" ">> \o FormDecode(Tail(str))
    ELSE IF Head(str) = "%" /\ Len(str) >= 3
            /\ \E ch \in DOMAIN PercentCode : PercentCode[ch] = SubSeq(str, 1, 3)
    THEN <<CHOOSE ch \in DOMAIN PercentCode : PercentCode[ch] = SubSeq(str, 1, 3)>>
             \o FormDecode(SubSeq(str, 4, Len(str)))
    ELSE <<Head(str)>> \o FormDecode(Tail(str))

\* new URL(text) throws a TypeError for a string that is no absolute URL.
URLParses(text) ==
    \/ StartsWith(text, <<"h","t","t","p",":","/","/">>)
    \/ StartsWith(text, <<"h","t","t","p","s",":","/","/">>)

\* One name=value piece of a query string.
ParsePair(piece) ==
    IF IndexOf(piece, "=") = 0 THEN <<FormDecode(piece), <<>>>>
    ELSE <<FormDecode(SubSeq(piece, 1, IndexOf(piece, "=") - 1)),
           FormDecode(SubSeq(piece, IndexOf(piece, "=") + 1, Len(piece)))>>

\* new URL(text): everything before the query, the searchParams list, and the
\* fragment with its '#'.  A URL without a path gets the path '/'.
URLParse(text) ==
    LET hashAt == IndexOf(text, "#")
        beforeHash == IF hashAt = 0 THEN text ELSE SubSeq(text, 1, hashAt - 1)
        queryAt == IndexOf(beforeHash, "?")
        beforeQuery == IF queryAt = 0 THEN beforeHash
                       ELSE SubSeq(beforeHash, 1, queryAt - 1)
        query == IF queryAt = 0 THEN <<>>
                 ELSE SubSeq(beforeHash, queryAt + 1, Len(beforeHash))
        pieces == SelectSeq(Split(query, "&"), LAMBDA p : p # <<>>)
        authority == SubSeq(beforeQuery, IndexOf(beforeQuery, ":") + 3,
                            Len(beforeQuery))
    IN  [base |-> IF Includes(authority, "/") THEN beforeQuery
                  ELSE beforeQuery \o <<"/">>,
         pairs |-> [i \in 1..Len(pieces) |-> ParsePair(pieces[i])],
         hash |-> IF hashAt = 0 THEN <<>> ELSE SubSeq(text, hashAt, Len(text))]

RECURSIVE JoinPairs(_)
JoinPairs(pairs) ==
    IF pairs = <<>> THEN <<>>
    ELSE FormEncode(Head(pairs)[1]) \o <<"=">> \o FormEncode(Head(pairs)[2])
         \o (IF Len(pairs) = 1 THEN <<>> ELSE <<"&">> \o JoinPairs(Tail(pairs)))

\* url.toString().
URLToString(url) ==
    url.base \o (IF url.pairs = <<>> THEN <<>> ELSE <<"?">> \o JoinPairs(url.pairs))
             \o url.hash

\* url.searchParams.set(name, text): replaces the parameters of that name.
searchParamsSet(pairs, name, text) ==
    Append(SelectSeq(pairs, LAMBDA p : p[1] # name), <<name, text>>)

\* url.searchParams.append(name, text).
searchParamsAppend(pairs, name, text) == Append(pairs, <<name, text>>)

RECURSIVE appendEach(_, _, _)
\* value.forEach(v => url.searchParams.append(key, String(v))).
appendEach(pairs, key, elements) ==
    IF elements = <<>> THEN pairs
    ELSE appendEach(searchParamsAppend(pairs, key, JSString(Head(elements))),
                    key, Tail(elements))

RECURSIVE appendEntries(_, _)
\* Object.entries(params).forEach(...), lines 262-271.
appendEntries(pairs, entries) ==
    IF entries = <<>> THEN pairs
    ELSE LET key == Head(entries)[1]
             value == Head(entries)[2]
         IN  appendEntries(
                 IF value = Null \/ value = Undefined THEN pairs
                 ELSE IF IsArray(value) THEN appendEach(pairs, key, value.array)
                 ELSE searchParamsAppend(pairs, key, JSString(value)),
                 Tail(entries))

\* params is given by its Object.entries.
buildURL(baseURL, entries) ==
    IF ~URLParses(baseURL) THEN [kind |-> "threw", error |-> "TypeError"]
    ELSE LET url == URLParse(baseURL)
         IN  [kind |-> "returned",
              value |-> URLToString([url EXCEPT
                                       !.pairs = appendEntries(@, entries)])]

BaseURLs == {<<"h","t","t","p",":","/","/","h","/","p">>,
             <<"h","t","t","p",":","/","/","h">>,
             <<"h","t","t","p",":","/","/","h","/","p","?","q","=","0","#","f">>,
             <<"x">>}
ParamKeys == {<<"q">>, <<"k", " ">>, <<"n">>}
ParamValues ==
    {Str(<<"a", " ", "&">>), Num(10), Bool(TRUE), Null, Undefined,
     Arr(<<>>), Arr(<<Num(1), Str(<<"x">>)>>), Arr(<<Null>>)}
\* Object.entries(params) of the params objects: no key twice.
ParamEntries ==
    UNION {{e \in [1..n -> ParamKeys \X ParamValues] :
               \A i \in 1..n, j \in 1..n : e[i][1] = e[j][1] => i = j} :
           n \in 0..MaxParams}

URLIdle ==
    /\ urlIn = [baseURL |-> <<>>, params |-> <<>>]
    /\ urlOut = [kind |-> "none"]
URLInit ==
    /\ urlIn \in [baseURL : BaseURLs, params : ParamEntries]
    /\ urlOut = [kind |-> "none"]

BuildURL ==
    /\ urlOut.kind = "none"
    /\ urlOut' = buildURL(urlIn.baseURL, urlIn.params)
    /\ UNCHANGED <<urlIn, httpVars, compVars, opVars, fmtVars, domVars>>

\* The parameters the entries of params stand for, in order.
ParamsOfEntry(entry) ==
    IF entry[2] = Null \/ entry[2] = Undefined THEN <<>>
    ELSE IF IsArray(entry[2])
    THEN [i \in 1..Len(entry[2].array) |-> <<entry[1], JSString(entry[2].array[i])>>]
    ELSE <<<<entry[1], JSString(entry[2])>>>>
RECURSIVE ExpectedParams(_)
ExpectedParams(entries) ==
    IF entries = <<>> THEN <<>>
    ELSE ParamsOfEntry(Head(entries)) \o ExpectedParams(Tail(entries))
\* The text between '?' and '#'.
QueryText(text) ==
    LET beforeHash == IF IndexOf(text, "#") = 0 THEN text
                      ELSE SubSeq(text, 1, IndexOf(text, "#") - 1)
    IN  IF IndexOf(beforeHash, "?") = 0 THEN <<>>
        ELSE SubSeq(beforeHash, IndexOf(beforeHash, "?") + 1, Len(beforeHash))

\* C14: the URL buildURL returns is baseURL with its own query parameters
\* first and then, in the key order of params, one URL-encoded parameter for
\* each scalar value and one for each element of an array value, as
\* String(value); keys whose value is null or undefined add nothing.
C14_BuildURLAppendsParams ==
    urlOut.kind = "returned" =>
        LET given == URLParse(urlIn.baseURL)
            built == URLParse(urlOut.value)
            query == QueryText(urlOut.value)
        IN  /\ built.base = given.base
            /\ built.hash = given.hash
            /\ built.pairs = given.pairs \o ExpectedParams(urlIn.params)
            /\ \A i \in 1..Len(query) :
                   query[i] \in FormSafe \cup {"&", "=", "+", "%"}

C14_Witness ==
    /\ urlIn.baseURL = <<"h","t","t","p",":","/","/","h","/","p","?","q","=","0","#","f">>
    /\ urlIn.params = <<<<<<"q">>, Arr(<<Num(1), Str(<<"x">>)>>)>>,
                        <<<<"k", " ">>, Str(<<"a", " ", "&">>)>>>>
    /\ urlOut.kind = "returned"
    /\ urlOut.value = <<"h","t","t","p",":","/","/","h","/","p","?","q","=","0","&","q","=","1","&","q","=","x","&","k","+","=","a","+","%","2","6","#","f">>

(***************************************************************************)
(* Specifications                                                          *)
(***************************************************************************)
\* Two callers whose requests are in flight together.
Init == HTTPInit /\ CompIdle /\ OpIdle /\ FmtIdle /\ DomIdle /\ URLIdle
Next ==
    \E c \in Callers :
        \/ Call(c, CallArgs)
        \/ FetchResolve(c)
        \/ FetchReject(c)
        \/ ErrBodySettle(c)
        \/ BodySettle(c)
        \/ Handled(c)
        \/ Relay(c)
Spec == Init /\ [][Next]_vars

\* One caller, every combination of function, url, data and options.
ForwardNext ==
    \/ Call("A", AllCallArgs)
    \/ FetchResolve("A")
    \/ FetchReject("A")
    \/ ErrBodySettle("A")
    \/ BodySettle("A")
    \/ Handled("A")
    \/ Relay("A")
ForwardSpec == Init /\ [][ForwardNext]_vars

\* The component helper: definitions, and one element's life in the document.
CompSpecInit == HTTPIdle /\ CompInit /\ OpIdle /\ FmtIdle /\ DomIdle /\ URLIdle
CompNext ==
    \/ \E t \in Tags, r \in Renders, o \in ObservedSets : Component(t, r, o)
    \/ \E e \in ElemIds, n \in AttrNames, v \in AttrValues : SetAttribute(e, n, v)
    \/ \E e \in ElemIds, n \in AttrNames : RemoveAttribute(e, n)
    \/ \E e \in ElemIds : Connect(e)
    \/ \E e \in ElemIds : Disconnect(e)
    \/ \E e \in ElemIds : CreateElement(e)
CompSpec == CompSpecInit /\ [][CompNext]_vars

\* The exported operations, each with its platform call returning or throwing.
OpSpecInit == HTTPIdle /\ CompIdle /\ OpInit /\ FmtIdle /\ DomIdle /\ URLIdle
OpNext ==
    \/ \E op \in ExportedOps, cause \in Causes : Invoke(op, cause)
    \/ \E i \in 1..MaxInvocations : SettleCall(i)
    \/ \E i \in 1..MaxInvocations : RelayCall(i)
OpSpec == OpSpecInit /\ [][OpNext]_vars

\* The format functions, each applied to an input drawn at the start.
FormatSpecInit == HTTPIdle /\ CompIdle /\ OpIdle /\ FmtInit /\ DomIdle /\ URLIdle
FormatNext == Slugify \/ FormatBytes \/ Truncate \/ Pad \/ FormatPercent
    \/ EscapeHTML \/ FormatRelativeTime \/ CamelCase \/ PascalCase
FormatSpec == FormatSpecInit /\ [][FormatNext]_vars

\* The DOM helpers called on a document of two elements.
DomSpecInit == HTTPIdle /\ CompIdle /\ OpIdle /\ FmtIdle /\ DomInit /\ URLIdle
DomNext ==
    \/ CallSelect \/ CallSelectAll \/ CallAppend \/ CallRemove
    \/ CallAddClass \/ CallRemoveClass \/ CallToggleClass \/ CallHasClass
    \/ CallOn \/ CallOff
    \/ CallSetAttributes \/ CallGetAttribute \/ CallRemoveAttribute
    \/ CallSetStyles \/ CallGetStyles \/ CallEmpty \/ CallClone
    \/ CallMatches \/ CallClosest
DomSpec == DomSpecInit /\ [][DomNext]_vars

\* buildURL applied to a base URL and a params object drawn at the start.
URLSpecInit == HTTPIdle /\ CompIdle /\ OpIdle /\ FmtIdle /\ DomIdle /\ URLInit
URLNext == BuildURL
URLSpec == URLSpecInit /\ [][URLNext]_vars

\* The platform fetch and the body reads settle, and the continuation of a
\* settled promise runs.
FairSpec ==
    /\ ForwardSpec
    /\ WF_vars(FetchResolve("A") \/ FetchReject("A"))
    /\ WF_vars(ErrBodySettle("A"))
    /\ WF_vars(BodySettle("A"))
    /\ WF_vars(Handled("A"))
    /\ WF_vars(Relay("A"))

====
